---- MODULE Spec2Model ----
(***************************************************************************)
(* Submission evaluation orchestrator of the code judge:                   *)
(*   executeCode, executeTestCasesInParallel, processSubmissionInBackground*)
(*   submitCodeAsync, submitCodeSync, getSubmissionById                    *)
(* (src/src/server.js, second half, and the JavaScript copy of the same    *)
(* controller in src/src/controllers/problemController.js).                *)
(*                                                                         *)
(* Text is a sequence of one-character strings, so that trimming is        *)
(* computed.  A few fixed texts (sentinels, messages) are one-token        *)
(* sequences.  Null stands for JavaScript null / undefined.                *)
(***************************************************************************)
EXTENDS Integers, Sequences, FiniteSets, TLC

VARIABLES
  db,        \* the submissions table: sequence of records, index = submission id
             \* (in the specification of getProblemById: the problems table)
  reqs,      \* the HTTP submit handlers (submitCodeAsync / submitCodeSync), one per request
  readResp,  \* the response of the latest getSubmissionById call
  bg,        \* one processSubmissionInBackground run followed step by step
             \* (in the specification of the router: one request)
             \* (in the write-level specification: the lifecycles, one per submission)
  tasks,     \* the executeCode calls of that run, one per test case
             \* (in the write-level specification: the database writes in flight)
  order,     \* the order in which those calls settled
  sc         \* one evaluation of the score formula

vars == <<db, reqs, readResp, bg, tasks, order, sc>>

-----------------------------------------------------------------------------
(* Bounds of the model *)

MaxTests == 2         \* test cases of the problem followed step by step
MaxFairTests == 1     \* the same, where termination is checked
MaxReqs == 1          \* submit requests of the request-level specification
MaxScoreTests == 10   \* test cases of the problems the score formula is applied to
MaxBasePoints == 4    \* their points are MaxBasePoints or MaxBasePoints + 1 at most
MaxSegments == 2      \* segments of the path of a request below /api/submissions
MaxTimeLimit == 2100  \* the largest time limit of a problem, in milliseconds

-----------------------------------------------------------------------------
(* Text *)

Null == <<"<null>">>
WS == " "

RECURSIVE TrimLeft(_)
TrimLeft(s) ==
  IF s = <<>> THEN <<>>
  ELSE IF Head(s) = WS THEN TrimLeft(Tail(s)) ELSE s

RECURSIVE TrimRight(_)
TrimRight(s) ==
  IF s = <<>> THEN <<>>
  ELSE IF s[Len(s)] = WS THEN TrimRight(SubSeq(s, 1, Len(s) - 1)) ELSE s

\* String.prototype.trim
Trim(s) == TrimRight(TrimLeft(s))

\* a || b on texts: null, undefined and "" are falsy
OrElse(a, b) == IF a = Null \/ a = <<>> THEN b ELSE a

-----------------------------------------------------------------------------
(* Problems and test cases (prisma schema: Problem, TestCase) *)

TestCaseAt(i) ==
  [ input    |-> <<"i", ToString(i)>>,
    output   |-> IF i % 2 = 1 THEN <<"o", ToString(i), WS>> ELSE <<WS, "o", ToString(i)>>,
    isHidden |-> (i % 2 = 0),
    points   |-> 50 ]

\* the problem with n test cases
ProblemOf(n) ==
  [ timeLimit |-> 2000, memoryLimit |-> 128,
    testCases |-> [i \in 1..n |-> TestCaseAt(i)] ]

-----------------------------------------------------------------------------
(* The execution engine's answers (GET /submissions/{token}).  time is the   *)
(* engine's time in milliseconds, 0 when the answer carries none; memory is *)
(* in bytes as the engine reports it, 0 when absent.                        *)

InFlightResponses ==
  { [kind |-> "json", statusId |-> id, description |-> <<>>, stdout |-> Null,
     stderr |-> Null, compile_output |-> Null, time |-> 0, memory |-> 0]
    : id \in {0, 1, 2} }      \* 0: the answer carries no status

\* what the submitted program may print for test case tc
StdoutsFor(tc) ==
  { Null, <<>>, Trim(tc.output), <<WS>> \o Trim(tc.output) \o <<WS>>, <<"w">> }

TerminalResponses(tc) ==
       { [kind |-> "json", statusId |-> 3, description |-> <<"Accepted">>, stdout |-> out,
          stderr |-> err, compile_output |-> Null, time |-> 2, memory |-> 2048]
         : out \in StdoutsFor(tc), err \in {Null, tc.input} }
  \cup { [kind |-> "json", statusId |-> 3, description |-> <<>>, stdout |-> Trim(tc.output),
          stderr |-> Null, compile_output |-> Null, time |-> 0, memory |-> 0] }
  \cup { [kind |-> "json", statusId |-> 4, description |-> <<"Wrong Answer">>, stdout |-> out,
          stderr |-> Null, compile_output |-> Null, time |-> 2, memory |-> 2048]
         : out \in {<<"w">>, Trim(tc.output)} }
  \cup { [kind |-> "json", statusId |-> 6, description |-> <<"Compilation Error">>,
          stdout |-> Null, stderr |-> Null, compile_output |-> <<"c">>,
          time |-> 0, memory |-> 0] }
  \cup { [kind |-> "json", statusId |-> 11, description |-> <<"Runtime Error (NZEC)">>,
          stdout |-> out, stderr |-> <<"e">>, compile_output |-> Null,
          time |-> 2, memory |-> 2048]
         : out \in {<<>>, Trim(tc.output)} }

\* a request that fails: fetch rejects, or the answer is not 2xx
FailedResponses == { [kind |-> "neterr"], [kind |-> "http"] }

PollResponses(tc) == InFlightResponses \cup TerminalResponses(tc) \cup FailedResponses

-----------------------------------------------------------------------------
(* executeCode *)

maxAttempts == 20

\* delays are counted in 1/16 ms, which makes every value below exact
InitialDelay == 1600
DelayCap == 16000

Min(a, b) == IF a <= b THEN a ELSE b

\* the backoff of the comment in the code: 100 -> 200 -> 400 -> 800 -> 1000
NextDelayDoubling(d) == Min(d * 2, DelayCap)

\* delay = Math.min(delay * 1.5, 1000)
NextDelay(d) == Min((d * 3) \div 2, DelayCap)

\* the loop condition with <= in the place of <
LoopCondInclusive(attempts) == attempts <= maxAttempts

\* while (attempts < maxAttempts)
LoopCond(attempts) == attempts < maxAttempts

\* the threshold one status too low: "processing" counts as finished
IsTerminalFromProcessing(r) == r.statusId # 0 /\ r.statusId >= 2

\* if (result.status && result.status.id >= 3)
IsTerminal(r) == r.statusId # 0 /\ r.statusId >= 3

\* the verdict taken from the comparison of the outputs alone
TerminalOutcomeOutputOnly(r, expectedOutput) ==
  LET formattedExpectedOutput == Trim(expectedOutput)
      actualOutput == Trim(OrElse(r.stdout, <<>>))
  IN [ passed         |-> (actualOutput = formattedExpectedOutput),
       output         |-> actualOutput,
       expectedOutput |-> formattedExpectedOutput,
       executionTime  |-> r.time,
       memoryUsed     |-> (r.memory + 512) \div 1024,
       status         |-> OrElse(r.description, <<"Unknown">>),
       error          |-> OrElse(r.stderr,
                                 IF OrElse(r.compile_output, <<>>) # <<>>
                                 THEN <<"Compilation Error: ">> \o r.compile_output
                                 ELSE Null) ]

\* the outcome returned on a terminal answer
TerminalOutcome(r, expectedOutput) ==
  LET formattedExpectedOutput == Trim(expectedOutput)
      actualOutput == Trim(OrElse(r.stdout, <<>>))
  IN [ passed         |-> (actualOutput = formattedExpectedOutput /\ r.statusId = 3),
       output         |-> actualOutput,
       expectedOutput |-> formattedExpectedOutput,
       executionTime  |-> r.time,
       memoryUsed     |-> (r.memory + 512) \div 1024,
       status         |-> OrElse(r.description, <<"Unknown">>),
       error          |-> OrElse(r.stderr,
                                 IF OrElse(r.compile_output, <<>>) # <<>>
                                 THEN <<"Compilation Error: ">> \o r.compile_output
                                 ELSE Null) ]

\* a catch block that drops the message of the error
ErrorOutcomeWithoutMessage(msg, expectedOutput) ==
  [ passed         |-> FALSE,
    output         |-> <<>>,
    expectedOutput |-> Trim(expectedOutput),
    executionTime  |-> 0,
    memoryUsed     |-> 0,
    status         |-> <<"Error">>,
    error          |-> Null ]

\* the outcome returned by the catch block
ErrorOutcome(msg, expectedOutput) ==
  [ passed         |-> FALSE,
    output         |-> <<>>,
    expectedOutput |-> Trim(expectedOutput),
    executionTime  |-> 0,
    memoryUsed     |-> 0,
    status         |-> <<"Error">>,
    error          |-> msg ]

MsgSubmitFailed == <<"Judge0 submission failed">>
MsgPollFailed == <<"Failed to get submission result">>
MsgNetwork == <<"fetch failed">>
MsgTimeout == <<"Execution timeout">>

-----------------------------------------------------------------------------
(* executeTestCasesInParallel *)

\* the object the map callback returns for one test case
TestCaseResult(tc, result) ==
  [ input          |-> tc.input,
    expectedOutput |-> tc.output,
    actualOutput   |-> result.output,
    passed         |-> result.passed,
    executionTime  |-> result.executionTime,
    memoryUsed     |-> result.memoryUsed,
    status         |-> result.status,
    error          |-> result.error,
    isHidden       |-> tc.isHidden ]

\* the values in the order in which the promises settled
PromiseAllInCompletionOrder(outs, ord) == [k \in 1..Len(ord) |-> outs[ord[k]]]

\* the values of the calls that did not fail only
PromiseAllWithoutFailures(outs, ord) == SelectSeq(outs, LAMBDA o : o.status # <<"Error">>)

\* await Promise.all(promises): the values in the order of the promises,
\* whatever the order (ord) in which they settled
PromiseAll(outs, ord) == [i \in 1..Len(outs) |-> outs[i]]

-----------------------------------------------------------------------------
(* The score *)

RECURSIVE SumPoints(_)
SumPoints(tcs) == IF tcs = <<>> THEN 0 ELSE Head(tcs).points + SumPoints(Tail(tcs))

RECURSIVE CountPassed(_)
CountPassed(rs) ==
  IF rs = <<>> THEN 0 ELSE (IF Head(rs).passed THEN 1 ELSE 0) + CountPassed(Tail(rs))

AllPassed(rs) == \A i \in 1..Len(rs) : rs[i].passed

(* JavaScript numbers are IEEE-754 doubles.  A double is written here as a    *)
(* pair [n, k] standing for n * 2^(-k), n a natural number given by its bits, *)
(* most significant first and without leading zeros, of at most Precision    *)
(* significant bits.                                                         *)

Precision == 53

\* 2^e, and 2^e modulo n, by repeated squaring
RECURSIVE Pow2(_)
Pow2(e) ==
  IF e = 0 THEN 1
  ELSE LET h == Pow2(e \div 2) IN IF e % 2 = 0 THEN h * h ELSE 2 * h * h

RECURSIVE Pow2Mod(_, _)
Pow2Mod(e, n) ==
  IF e = 0 THEN 1 % n
  ELSE LET h == Pow2Mod(e \div 2, n) IN IF e % 2 = 0 THEN (h * h) % n ELSE (2 * h * h) % n

\* the number of bits of a small natural x
BitLen(x) == CHOOSE l \in 0..30 : Pow2(l) > x /\ (l = 0 \/ Pow2(l - 1) <= x)

ToBits(x) == [i \in 1..BitLen(x) |-> (x \div Pow2(BitLen(x) - i)) % 2]

\* the value of a short bit sequence
RECURSIVE ToInt(_)
ToInt(b) ==
  IF Len(b) = 0 THEN 0
  ELSE IF Len(b) = 1 THEN b[1]
  ELSE LET h == Len(b) \div 2
       IN ToInt(SubSeq(b, 1, h)) * Pow2(Len(b) - h) + ToInt(SubSeq(b, h + 1, Len(b)))

\* without the leading zeros
Strip(b) ==
  IF \A i \in 1..Len(b) : b[i] = 0 THEN <<>>
  ELSE LET f == CHOOSE i \in 1..Len(b) : b[i] = 1 /\ \A j \in 1..(i - 1) : b[j] = 0
       IN SubSeq(b, f, Len(b))

\* b + 1
Inc(b) ==
  IF \A i \in 1..Len(b) : b[i] = 1 THEN <<1>> \o [i \in 1..Len(b) |-> 0]
  ELSE LET z == CHOOSE i \in 1..Len(b) : b[i] = 0 /\ \A j \in (i + 1)..Len(b) : b[j] = 1
       IN [i \in 1..Len(b) |-> IF i < z THEN b[i] ELSE IF i = z THEN 1 ELSE 0]

\* round to nearest, ties to even: b is cut after its first keep bits;
\* sticky tells that non-zero bits follow those of b
RoundBits(b, keep, sticky) ==
  IF Len(b) <= keep THEN b
  ELSE LET kept == SubSeq(b, 1, keep)
           half == b[keep + 1] = 1
           rest == sticky \/ \E j \in (keep + 2)..Len(b) : b[j] = 1
           odd  == keep > 0 /\ b[keep] = 1
       IN IF half /\ (rest \/ odd) THEN Inc(kept) ELSE kept

\* the first k bits of the binary expansion of r / n, 0 <= r < n, and what is left:
\* after i bits the remainder is r * 2^i modulo n
FracBits(r, n, k) ==
  [ bits |-> [i \in 1..k |-> IF 2 * ((r * Pow2Mod(i - 1, n)) % n) >= n THEN 1 ELSE 0],
    rem  |-> (r * Pow2Mod(k, n)) % n ]

\* the number of zeros that start the binary expansion of r / n, 0 < r < n
LeadingZeros(r, n) == CHOOSE e \in 0..30 : Pow2(e + 1) * r >= n /\ Pow2(e) * r < n

\* the double a / b, for naturals a and b > 0
FDiv(a, b) ==
  LET int  == ToBits(a \div b)
      r    == a % b
      k    == IF int # <<>> THEN Precision + 1 - Len(int)
              ELSE IF r = 0 THEN 0
              ELSE LeadingZeros(r, b) + Precision + 1
      frac == FracBits(r, b, k)
      all  == Strip(int \o frac.bits)
  IN IF k = 0 THEN [n |-> int, k |-> 0]
     ELSE [n |-> RoundBits(all, Len(all) - 1, frac.rem # 0), k |-> k - 1]

\* the j-th group of ten bits of b, counted from the least significant end
Limb(b, j) ==
  LET hi == Len(b) - 10 * (j - 1)
      lo == IF hi > 10 THEN hi - 9 ELSE 1
  IN ToInt(SubSeq(b, lo, hi))

\* limbs * t + carry, limb by limb from the least significant one
RECURSIVE MulLimbs(_, _, _, _)
MulLimbs(limbs, j, t, carry) ==
  IF j > Len(limbs) THEN << carry % 1024, (carry \div 1024) % 1024, carry \div (1024 * 1024) >>
  ELSE LET v == limbs[j] * t + carry
       IN << v % 1024 >> \o MulLimbs(limbs, j + 1, t, v \div 1024)

\* b * t for a small natural t (t < 2^20)
MulSmall(b, t) ==
  LET limbs == [j \in 1..((Len(b) + 9) \div 10) |-> Limb(b, j)]
      out   == MulLimbs(limbs, 1, t, 0)
      len   == 10 * Len(out)
  IN Strip([i \in 1..len |->
              (out[Len(out) - ((i - 1) \div 10)] \div Pow2(9 - ((i - 1) % 10))) % 2])

\* the double x * t, for a double x and a natural t
FMul(x, t) ==
  LET prod == MulSmall(x.n, t)
      drop == IF Len(prod) > Precision THEN Len(prod) - Precision ELSE 0
  IN [n |-> RoundBits(prod, Precision, FALSE), k |-> x.k - drop]

\* Math.round(x) for a double x >= 0 with x.k >= 0: the nearest integer, a tie goes up
MathRound(x) ==
  LET len   == Len(x.n)
      whole == IF len > x.k THEN ToInt(SubSeq(x.n, 1, len - x.k)) ELSE 0
      half  == IF x.k > 0 /\ len >= x.k THEN x.n[len - x.k + 1] ELSE 0
  IN whole + half

\* the score without the division by the number of test cases
ScoreOfNoDivision(passedTests, count, totalPoints) == passedTests * totalPoints

\* Math.round((passedTests / testCases.length) * totalPoints)
ScoreOf(passedTests, count, totalPoints) == MathRound(FMul(FDiv(passedTests, count), totalPoints))

\* the aggregation with the status of the first failing result as overall status
AggregateFirstFailure(results, tcs) ==
  [ allTestsPassed |-> AllPassed(results),
    passedTests    |-> CountPassed(results),
    totalPoints    |-> SumPoints(tcs),
    score          |-> ScoreOf(CountPassed(results), Len(tcs), SumPoints(tcs)),
    overallStatus  |-> IF AllPassed(results) THEN <<"Accepted">>
                       ELSE LET first == CHOOSE i \in 1..Len(results) :
                                           /\ ~ results[i].passed
                                           /\ \A j \in 1..(i - 1) : results[j].passed
                            IN results[first].status ]

\* allTestsPassed, passedTests, totalPoints, score, overallStatus of a finished run
Aggregate(results, tcs) ==
  [ allTestsPassed |-> AllPassed(results),
    passedTests    |-> CountPassed(results),
    totalPoints    |-> SumPoints(tcs),
    score          |-> ScoreOf(CountPassed(results), Len(tcs), SumPoints(tcs)),
    overallStatus  |-> IF AllPassed(results) THEN <<"Accepted">> ELSE <<"Wrong Answer">> ]

-----------------------------------------------------------------------------
(* The submissions table *)

NoScore == <<>>
NoResults == <<>>       \* results: null (an empty array is never stored)

\* every submission created RUNNING, as submitCodeSync creates it
NewSubmissionAlwaysRunning(problemId, status) ==
  [ problemId |-> problemId, status |-> "RUNNING", score |-> NoScore, results |-> NoResults ]

\* a score column that defaults to 0
NewSubmissionScoreZero(problemId, status) ==
  [ problemId |-> problemId, status |-> status, score |-> <<0>>, results |-> NoResults ]

NewSubmission(problemId, status) ==
  [ problemId |-> problemId, status |-> status, score |-> NoScore, results |-> NoResults ]

\* an update whose where clause is missing: every row receives the data
UpdateEveryRow(table, id, data) ==
  [i \in 1..Len(table) |->
     [f \in DOMAIN table[i] |-> IF f \in DOMAIN data THEN data[f] ELSE table[i][f]]]

\* prisma.submission.update({ where: { id }, data })
Update(table, id, data) ==
  [table EXCEPT ![id] = [f \in DOMAIN @ |-> IF f \in DOMAIN data THEN data[f] ELSE @[f]]]

SystemErrorResults(msg) == << [passed |-> FALSE, status |-> <<"System Error">>, error |-> msg] >>
MsgDb == <<"db error">>

-----------------------------------------------------------------------------
(* One processSubmissionInBackground run, its executeCode calls step by step *)

IdleTask == [pc |-> "idle", attempts |-> 0, delay |-> 0, outcome |-> <<>>, last |-> <<>>]

RunTests == bg.problem.testCases
RunN == Len(RunTests)

\* a run on a problem of at most max test cases, its submission just created
InitRunOf(max) ==
  /\ \E n \in 1..max :
       bg = [pc |-> "start", id |-> 1, problem |-> ProblemOf(n), results |-> <<>>, error |-> Null]
  /\ db = << NewSubmission(1, "PENDING") >>
  /\ tasks = <<>>
  /\ order = <<>>
  /\ reqs = <<>>
  /\ readResp = <<>>
  /\ sc = <<>>

InitRun == InitRunOf(MaxTests)

InitRunFair == InitRunOf(MaxFairTests)

\* await update(status RUNNING) returns; the map callbacks all start and send their requests
BgRunningOk ==
  /\ bg.pc = "start"
  /\ db' = Update(db, bg.id, [status |-> "RUNNING"])
  /\ tasks' = [i \in 1..RunN |-> [IdleTask EXCEPT !.pc = "submit"]]
  /\ bg' = [bg EXCEPT !.pc = "exec"]
  /\ UNCHANGED <<order, reqs, readResp, sc>>

\* await update(status RUNNING) throws
BgRunningFail ==
  /\ bg.pc = "start"
  /\ bg' = [bg EXCEPT !.pc = "catch", !.error = MsgDb]
  /\ UNCHANGED <<db, tasks, order, reqs, readResp, sc>>

\* a call that settles on a failure settles its unsettled siblings with the same outcome
SettleFailFast(i, out, r) ==
  /\ tasks' = [j \in 1..Len(tasks) |->
                IF j = i \/ (~ out.passed /\ tasks[j].pc # "done")
                THEN [pc |-> "done", attempts |-> 0, delay |-> 0, outcome |-> <<out>>, last |-> r]
                ELSE tasks[j]]
  /\ order' = order \o <<i>> \o
                 SelectSeq([j \in 1..Len(tasks) |-> j],
                           LAMBDA j : j # i /\ ~ out.passed /\ tasks[j].pc # "done")

\* an outcome that is stored where it should be returned: the loop goes on
SettleWithoutReturn(i, out, r) ==
  /\ tasks' = [tasks EXCEPT ![i] = [@ EXCEPT !.outcome = <<out>>, !.last = r]]
  /\ UNCHANGED order

Settle(i, out, r) ==
  /\ tasks' = [tasks EXCEPT ![i] = [pc |-> "done", attempts |-> 0, delay |-> 0,
                                    outcome |-> <<out>>, last |-> r]]
  /\ order' = Append(order, i)

\* POST /submissions answers with a token
ExecSubmitOk(i) ==
  /\ bg.pc = "exec" /\ tasks[i].pc = "submit"
  /\ tasks' = [tasks EXCEPT ![i] = [@ EXCEPT !.pc = "poll", !.attempts = 0, !.delay = InitialDelay]]
  /\ UNCHANGED <<db, bg, order, reqs, readResp, sc>>

\* POST /submissions fails: fetch rejects, the answer is not ok, or its body is no JSON
ExecSubmitFail(i) ==
  /\ bg.pc = "exec" /\ tasks[i].pc = "submit"
  /\ \E msg \in {MsgNetwork, MsgSubmitFailed} :
       Settle(i, ErrorOutcome(msg, RunTests[i].output), <<>>)
  /\ UNCHANGED <<db, bg, reqs, readResp, sc>>

\* one turn of the polling loop, in which the engine answers r
ExecPollOn(i, r) ==
  /\ bg.pc = "exec" /\ tasks[i].pc = "poll"
  /\ LoopCond(tasks[i].attempts)
  /\ IF r.kind # "json"
     THEN Settle(i, ErrorOutcome(IF r.kind = "neterr" THEN MsgNetwork ELSE MsgPollFailed,
                                 RunTests[i].output), <<>>)
     ELSE IF IsTerminal(r)
     THEN Settle(i, TerminalOutcome(r, RunTests[i].output), <<r>>)
     ELSE /\ tasks' = [tasks EXCEPT ![i] = [@ EXCEPT !.attempts = @ + 1,
                                                     !.delay = NextDelay(@)]]
          /\ UNCHANGED order
  /\ UNCHANGED <<db, bg, reqs, readResp, sc>>

\* one turn of the polling loop
ExecPoll(i) == \E r \in PollResponses(RunTests[i]) : ExecPollOn(i, r)

\* the loop ends without a terminal answer: throw new Error('Execution timeout')
ExecTimeout(i) ==
  /\ bg.pc = "exec" /\ tasks[i].pc = "poll"
  /\ ~LoopCond(tasks[i].attempts)
  /\ Settle(i, ErrorOutcome(MsgTimeout, RunTests[i].output), <<>>)
  /\ UNCHANGED <<db, bg, reqs, readResp, sc>>

RunResults ==
  PromiseAll([i \in 1..RunN |-> TestCaseResult(RunTests[i], tasks[i].outcome[1])], order)

\* Promise.all resolves; the score is computed and the final update is sent
BgJoin ==
  /\ bg.pc = "exec"
  /\ \A i \in 1..RunN : tasks[i].pc = "done"
  /\ bg' = [bg EXCEPT !.pc = "final", !.results = RunResults]
  /\ UNCHANGED <<db, tasks, order, reqs, readResp, sc>>

\* the final update with the status of a submission that waits
FinalDataBackToPending(results, tcs) ==
  [ status  |-> "PENDING",
    score   |-> << Aggregate(results, tcs).score >>,
    results |-> results ]

\* the final update without the status
FinalDataWithoutStatus(results, tcs) ==
  [ score   |-> << Aggregate(results, tcs).score >>,
    results |-> results ]

FinalData(results, tcs) ==
  [ status  |-> "COMPLETED",
    score   |-> << Aggregate(results, tcs).score >>,
    results |-> results ]

\* await update(COMPLETED, score, results) returns
BgFinalOk ==
  /\ bg.pc = "final"
  /\ db' = Update(db, bg.id, FinalData(bg.results, RunTests))
  /\ bg' = [bg EXCEPT !.pc = "done"]
  /\ UNCHANGED <<tasks, order, reqs, readResp, sc>>

\* await update(COMPLETED, ...) throws
BgFinalFail ==
  /\ bg.pc = "final"
  /\ bg' = [bg EXCEPT !.pc = "catch", !.error = MsgDb]
  /\ UNCHANGED <<db, tasks, order, reqs, readResp, sc>>

\* the catch block: await update(ERROR, [System Error]) returns
BgCatchOk ==
  /\ bg.pc = "catch"
  /\ db' = Update(db, bg.id, [status |-> "ERROR", results |-> SystemErrorResults(bg.error)])
  /\ bg' = [bg EXCEPT !.pc = "done"]
  /\ UNCHANGED <<tasks, order, reqs, readResp, sc>>

\* the update of the catch block throws too: the promise of the run rejects, unhandled
BgCatchFail ==
  /\ bg.pc = "catch"
  /\ bg' = [bg EXCEPT !.pc = "rejected"]
  /\ UNCHANGED <<db, tasks, order, reqs, readResp, sc>>

NextRun ==
  \/ BgRunningOk
  \/ BgRunningFail
  \/ \E i \in 1..Len(tasks) : ExecSubmitOk(i)
  \/ \E i \in 1..Len(tasks) : ExecSubmitFail(i)
  \/ \E i \in 1..Len(tasks) : ExecPoll(i)
  \/ \E i \in 1..Len(tasks) : ExecTimeout(i)
  \/ BgJoin
  \/ BgFinalFail
  \/ BgFinalOk
  \/ BgCatchOk
  \/ BgCatchFail

SpecRun == InitRun /\ [][NextRun]_vars

\* the event loop runs every continuation that is ready, and every request returns
SpecRunFair == InitRunFair /\ [][NextRun]_vars /\ WF_vars(NextRun)

\* Promise.all has resolved
Joined == tasks # <<>> /\ bg.pc # "exec"

\* the executeCode call of test case i ended in its catch block
Failed(i) == tasks[i].pc = "done" /\ tasks[i].last = <<>>

\* C4: executeTestCasesInParallel returns exactly one result per test case whatever
\* calls fail; a failed call gives passed = false for its own test case, and the
\* other test cases keep the verdict of their own answers
C4_OneResultPerTestCase ==
  Joined =>
    /\ Len(bg.results) = RunN
    /\ \A i \in 1..RunN :
         /\ Failed(i) => bg.results[i].passed = FALSE
         /\ ~Failed(i) =>
              /\ bg.results[i].actualOutput = Trim(OrElse(tasks[i].last[1].stdout, <<>>))
              /\ bg.results[i].status # <<"Error">>

\* C4 witness: one call failed and another test case passed
C4_Witness ==
  /\ Joined
  /\ \E i, j \in 1..RunN : Failed(i) /\ ~Failed(j) /\ bg.results[j].passed

\* C5: the i-th element of the returned array is the result of the i-th test case
\* of the input array, whatever the order in which the calls completed
C5_ResultsInTestCaseOrder ==
  Joined =>
    \A i \in 1..Len(bg.results) :
      /\ i <= RunN
      /\ bg.results[i] = TestCaseResult(RunTests[i], tasks[i].outcome[1])

\* C5 witness: the call of the last test case completed first
C5_Witness ==
  /\ Joined /\ RunN >= 2
  /\ order[1] = RunN
  /\ bg.results[1].input = RunTests[1].input
  /\ bg.results[RunN].input = RunTests[RunN].input

\* C8: a call issues at most maxAttempts polls (each poll answered in flight counts
\* one attempt, and a poll is only issued below maxAttempts); after maxAttempts
\* polls without a terminal answer it stops with passed = false and an execution
\* timeout, and only then
C8_AtMostTwentyPolls ==
  [][\A i \in 1..Len(tasks) :
       /\ tasks[i].attempts <= maxAttempts
       /\ (tasks[i].pc = "poll" /\ tasks'[i].pc = "poll" /\ tasks'[i] # tasks[i])
            => /\ tasks[i].attempts < maxAttempts
               /\ tasks'[i].attempts = tasks[i].attempts + 1
       /\ (tasks[i].pc = "poll" /\ tasks'[i].pc = "done")
            => /\ tasks[i].attempts = maxAttempts
                    => /\ tasks'[i].outcome[1].passed = FALSE
                       /\ tasks'[i].outcome[1].error = MsgTimeout
                       /\ tasks'[i].last = <<>>
               /\ tasks'[i].outcome[1].error = MsgTimeout
                    => tasks[i].attempts = maxAttempts]_vars

\* C8 witness: a call ended on the execution timeout
C8_Witness ==
  \E i \in 1..Len(tasks) :
    /\ Failed(i)
    /\ tasks[i].outcome[1].error = MsgTimeout
    /\ tasks[i].outcome[1].passed = FALSE

\* the run ended on the timeout of every call
AllTimedOut ==
  /\ tasks # <<>>
  /\ \A i \in 1..Len(tasks) : Failed(i) /\ tasks[i].outcome[1].error = MsgTimeout

\* C9: when every request and every write returns, the submission eventually
\* reaches COMPLETED or ERROR, also when the engine keeps every token in flight
\* forever (the only run that ends elsewhere is the one whose ERROR write itself
\* threw); the test cases that timed out are recorded as failing results
C9_AsyncEvaluationTerminates ==
  /\ <>(bg.pc = "rejected" \/ (bg.pc = "done" /\ db[bg.id].status \in {"COMPLETED", "ERROR"}))
  /\ [](db[bg.id].status = "COMPLETED" =>
          /\ Len(db[bg.id].results) = RunN
          /\ \A i \in 1..RunN :
               tasks[i].outcome[1].error = MsgTimeout => db[bg.id].results[i].passed = FALSE)

\* C9 witness: every call timed out and the submission is COMPLETED with a score of 0
C9_Witness ==
  /\ AllTimedOut
  /\ bg.pc = "done"
  /\ db[bg.id].status = "COMPLETED"
  /\ db[bg.id].score = <<0>>
  /\ \A i \in 1..RunN : db[bg.id].results[i].passed = FALSE

\* C10: passed is true only if the terminal status id is 3 and the trimmed stdout
\* equals the trimmed expected output; a status id of 4 or more gives passed = false
\* even when the stdout matches
C10_PassedOnlyIfAcceptedAndEqual ==
  \A i \in 1..Len(tasks) :
    tasks[i].pc = "done" =>
      /\ tasks[i].outcome[1].passed =>
           /\ ~Failed(i)
           /\ tasks[i].last[1].statusId = 3
           /\ Trim(OrElse(tasks[i].last[1].stdout, <<>>)) = Trim(RunTests[i].output)
      /\ (~Failed(i) /\ tasks[i].last[1].statusId >= 4) => tasks[i].outcome[1].passed = FALSE

\* C10 witness: a status id of 4 or more with the expected stdout, not passed
C10_Witness ==
  \E i \in 1..Len(tasks) :
    /\ tasks[i].pc = "done" /\ ~Failed(i)
    /\ tasks[i].last[1].statusId >= 4
    /\ Trim(OrElse(tasks[i].last[1].stdout, <<>>)) = Trim(RunTests[i].output)
    /\ tasks[i].outcome[1].passed = FALSE

\* C11: a network error or a non-2xx answer to the submit request or to a poll
\* request does not leave executeCode as an exception: the call ends with an
\* outcome that has passed = false, executionTime 0, memoryUsed 0 and the message
\* of the error, and the run that awaits it is not thrown into its catch block
C11_FailuresBecomeOutcomes ==
  [][\A i \in 1..Len(tasks) :
       (tasks[i].pc \in {"submit", "poll"} /\ tasks'[i].pc = "done" /\ tasks'[i].last = <<>>)
         => /\ Len(tasks'[i].outcome) = 1
            /\ tasks'[i].outcome[1].passed = FALSE
            /\ tasks'[i].outcome[1].executionTime = 0
            /\ tasks'[i].outcome[1].memoryUsed = 0
            /\ tasks[i].pc = "submit"
                 => tasks'[i].outcome[1].error \in {MsgNetwork, MsgSubmitFailed}
            /\ (tasks[i].pc = "poll" /\ tasks[i].attempts < maxAttempts)
                 => tasks'[i].outcome[1].error \in {MsgNetwork, MsgPollFailed}
            /\ bg'.pc = "exec"]_vars

\* C11 witness: one call ended on a non-2xx answer to a poll, another on a failed
\* submit request, and the run went on to its final update
C11_Witness ==
  /\ bg.pc = "final"
  /\ \E i, j \in 1..Len(tasks) :
       /\ Failed(i) /\ tasks[i].outcome[1].error = MsgPollFailed
       /\ Failed(j) /\ tasks[j].outcome[1].error = MsgSubmitFailed
       /\ tasks[i].outcome[1].passed = FALSE /\ tasks[j].outcome[1].passed = FALSE

\* C33: a call sends its submit request once, at its start; it polls only after the
\* submit request has returned a token; and after a failed submit, a failed poll or
\* a terminal answer (the call has its outcome) it sends nothing more
C33_OneSubmitThenPolls ==
  [][\A i \in 1..Len(tasks) :
       /\ Len(tasks') = Len(tasks)
       /\ tasks'[i].pc = "submit" => tasks'[i] = tasks[i]
       /\ (tasks'[i].pc = "poll" /\ tasks[i].pc # "poll") =>
            tasks[i].pc = "submit" /\ tasks'[i].attempts = 0 /\ tasks'[i].outcome = <<>>
       /\ tasks[i].pc = "poll" => tasks'[i].pc \in {"poll", "done"}
       /\ (tasks[i].pc = "submit" /\ tasks'[i].pc = "done") =>
            tasks'[i].outcome[1].error \in {MsgNetwork, MsgSubmitFailed}
       /\ tasks'[i].outcome # <<>> => tasks'[i].pc = "done"
       /\ tasks[i].pc = "done" => tasks'[i] = tasks[i]]_vars

\* C33 witness: the first call ended on its failed submit request, the second on a
\* terminal answer to one of its polls
C33_Witness ==
  /\ Len(tasks) = 2
  /\ Failed(1) /\ tasks[1].outcome[1].error = MsgSubmitFailed
  /\ tasks[2].pc = "done" /\ tasks[2].last # <<>> /\ IsTerminal(tasks[2].last[1])
  /\ bg.pc = "final"

\* C20: the outcome of a call that used up its polls carries a status label
\* different from the label of the outcome of a call that ended on a network error
\* or a non-2xx answer
C20_TimeoutLabelDiffersFromTransportLabel ==
  \A i, j \in 1..Len(tasks) :
    ( /\ Failed(i) /\ tasks[i].outcome[1].error = MsgTimeout
      /\ Failed(j) /\ tasks[j].outcome[1].error \in {MsgNetwork, MsgSubmitFailed, MsgPollFailed} )
    => tasks[i].outcome[1].status # tasks[j].outcome[1].status

-----------------------------------------------------------------------------
(* executeCode as a function of what the engine answers.  A script is the     *)
(* answer to the submit request and the answers to the polls in order; after  *)
(* the last one the engine keeps the token in flight.                         *)

StillQueued == CHOOSE r \in InFlightResponses : r.statusId = 1

RECURSIVE PollLoop(_, _, _)
PollLoop(attempts, polls, expectedOutput) ==
  IF ~LoopCond(attempts) THEN ErrorOutcome(MsgTimeout, expectedOutput)
  ELSE LET r == IF attempts + 1 <= Len(polls) THEN polls[attempts + 1] ELSE StillQueued
       IN IF r.kind # "json"
          THEN ErrorOutcome(IF r.kind = "neterr" THEN MsgNetwork ELSE MsgPollFailed,
                            expectedOutput)
          ELSE IF IsTerminal(r) THEN TerminalOutcome(r, expectedOutput)
          ELSE PollLoop(attempts + 1, polls, expectedOutput)

ExecuteCode(tc, script) ==
  IF script.submit # "ok"
  THEN ErrorOutcome(IF script.submit = "neterr" THEN MsgNetwork ELSE MsgSubmitFailed, tc.output)
  ELSE PollLoop(0, script.polls, tc.output)

\* engine behaviours for one test case: the program prints the expected output, prints
\* the expected output and copies its input to stderr, prints something else; the
\* engine never finishes; the submit request fails
Accepted(tc, out, err) ==
  CHOOSE t \in TerminalResponses(tc) :
    t.statusId = 3 /\ t.description # <<>> /\ t.stdout = out /\ t.stderr = err

ScriptPass(tc)  == [submit |-> "ok", polls |-> <<StillQueued, Accepted(tc, Trim(tc.output), Null)>>]
ScriptEcho(tc)  == [submit |-> "ok", polls |-> <<Accepted(tc, Trim(tc.output), tc.input)>>]
ScriptWrong(tc) == [submit |-> "ok", polls |-> <<Accepted(tc, <<"w">>, Null)>>]
ScriptStuck     == [submit |-> "ok", polls |-> <<>>]
ScriptDown      == [submit |-> "http", polls |-> <<>>]

\* the engine behaviours, one per test case, that the request-level specification draws from
ScriptChoices(tcs) ==
  LET n == Len(tcs)
  IN { [i \in 1..n |-> ScriptPass(tcs[i])],
       [i \in 1..n |-> ScriptStuck],
       [i \in 1..n |-> IF i = 1 THEN ScriptWrong(tcs[i]) ELSE ScriptPass(tcs[i])],
       [i \in 1..n |-> IF i = n THEN ScriptEcho(tcs[i]) ELSE ScriptPass(tcs[i])],
       [i \in 1..n |-> IF i = n THEN ScriptDown ELSE ScriptPass(tcs[i])] }

\* executeTestCasesInParallel, for one choice of the engine's behaviour per test case
ExecuteTestCasesInParallel(tcs, scripts) ==
  PromiseAll([i \in 1..Len(tcs) |-> TestCaseResult(tcs[i], ExecuteCode(tcs[i], scripts[i]))],
             [i \in 1..Len(tcs) |-> i])

\* what call i has heard from the engine when it settles: the answer to its submit
\* request and the answers to its polls, those before the last one all in flight
Heard(before, after) ==
  LET err == after.outcome[1].error
      queued == [k \in 1..before.attempts |-> StillQueued]
  IN IF before.pc = "submit"
     THEN [submit |-> IF err = MsgNetwork THEN "neterr" ELSE "http", polls |-> <<>>]
     ELSE [submit |-> "ok",
           polls  |-> IF after.last # <<>> THEN queued \o after.last
                      ELSE IF ~LoopCond(before.attempts) THEN queued
                      ELSE queued \o << [kind |-> IF err = MsgNetwork THEN "neterr" ELSE "http"] >>]

\* C26: a step of one call changes no other call, a settled call is never changed
\* again while the others run, and the outcome a call settles on is the outcome
\* executeCode returns alone for the answers the engine gave to that call
C26_SiblingsAreIndependent ==
  [][(bg.pc = "exec" /\ tasks' # tasks) =>
       \E i \in 1..Len(tasks) :
         /\ Len(tasks') = Len(tasks)
         /\ \A j \in 1..Len(tasks) : j # i => tasks'[j] = tasks[j]
         /\ tasks[i].pc # "done"
         /\ tasks'[i].pc = "done"
              => tasks'[i].outcome[1] = ExecuteCode(RunTests[i], Heard(tasks[i], tasks'[i]))]_vars

\* C26 witness: the first call has timed out and the second, which went on polling
\* after that, has passed
C26_Witness ==
  /\ Len(order) = 2 /\ order[1] = 1
  /\ Failed(1) /\ tasks[1].outcome[1].error = MsgTimeout
  /\ tasks[2].pc = "done" /\ tasks[2].outcome[1].passed
  /\ tasks[2].outcome[1] = ExecuteCode(RunTests[2], ScriptPass(RunTests[2]))

-----------------------------------------------------------------------------
(* One executeCode call against an engine whose answers to the polls are laid   *)
(* down beforehand: bg.script[k] is the answer to the k-th poll, and the engine *)
(* goes on answering "in queue" when the script is used up.                     *)

\* the answers with which a script ends
ScriptTails(tc) ==
  LET last == { Accepted(tc, Trim(tc.output), Null),
                CHOOSE t \in TerminalResponses(tc) : t.statusId = 4 /\ t.stdout = <<"w">>,
                CHOOSE r \in InFlightResponses : r.statusId = 2,
                [kind |-> "http"] }
  IN {<<>>} \cup { <<a>> : a \in last } \cup { <<a, b>> : a \in last, b \in last }

InitPoll ==
  /\ \E k \in 0..maxAttempts, q \in InFlightResponses, tail \in ScriptTails(TestCaseAt(1)) :
       bg = [ pc |-> "exec", id |-> 1, problem |-> ProblemOf(1), results |-> <<>>,
              error |-> Null, script |-> [j \in 1..k |-> q] \o tail ]
  /\ tasks = << [IdleTask EXCEPT !.pc = "poll", !.delay = InitialDelay] >>
  /\ db = << NewSubmission(1, "RUNNING") >>
  /\ order = <<>>
  /\ reqs = <<>>
  /\ readResp = <<>>
  /\ sc = <<>>

\* the answer of the engine to the k-th poll
Answer(k) == IF k <= Len(bg.script) THEN bg.script[k] ELSE StillQueued

\* one turn of the polling loop against the script
ScriptedPoll == ExecPollOn(1, Answer(tasks[1].attempts + 1))

NextPoll ==
  \/ ScriptedPoll
  \/ ExecTimeout(1)

SpecPoll == InitPoll /\ [][NextPoll]_vars

\* an answer that carries a status id of 3 or more
Finished(r) == r.kind = "json" /\ r.statusId >= 3

\* C27: while the call polls, none of the answers it has received was finished and it
\* has received fewer than 20; a finished answer to one of the polls 1..20 ends the
\* call with the verdict of that answer, an answer with status id 1 or 2 or without a
\* status does not end it, and a call that has ended polls no more
C27_TerminalExactlyFromThree ==
  [][LET a == tasks[1].attempts
         r == Answer(a + 1)
     IN /\ tasks[1].pc = "poll" =>
             /\ \A k \in 1..a : ~ Finished(Answer(k))
             /\ a <= 20
             /\ (a < 20 /\ Finished(r)) =>
                  /\ tasks'[1].pc = "done"
                  /\ tasks'[1].outcome[1] = TerminalOutcome(r, TestCaseAt(1).output)
                  /\ tasks'[1].outcome[1].status = OrElse(r.description, <<"Unknown">>)
             /\ (a < 20 /\ r.kind = "json" /\ ~ Finished(r)) =>
                  tasks'[1].pc = "poll" /\ tasks'[1].attempts = a + 1
             /\ a = 20 => tasks'[1].outcome[1].error = MsgTimeout
        /\ tasks[1].pc = "done" => tasks' = tasks]_vars

\* C27 witness: the call has ended with the verdict of the answer to its 20th poll
C27_Witness ==
  /\ tasks[1].pc = "done" /\ tasks[1].last # <<>>
  /\ Len(bg.script) >= 20 /\ tasks[1].last[1] = bg.script[20]
  /\ \A k \in 1..19 : ~ Finished(bg.script[k])
  /\ tasks[1].outcome[1].passed

\* milliseconds in the unit of the delays
Ms(ms) == ms * 16

\* 100 ms * 1.5^k, capped at 1000 ms; from k = 6 on the power is above the cap
WaitBeforePoll(k) == IF k >= 6 THEN Ms(1000) ELSE (Ms(100) * 3^k) \div 2^k

-----------------------------------------------------------------------------
(* Redaction of hidden test cases in a response *)

Hidden == <<"[Hidden]">>
HiddenPassed == <<"[Hidden - Passed]">>
HiddenFailed == <<"[Hidden - Failed]">>

\* a redaction that does not look at the hidden flag
RedactResultAlways(result) ==
  IF "isHidden" \in DOMAIN result
  THEN [result EXCEPT !.input = Hidden,
                      !.expectedOutput = Hidden,
                      !.actualOutput = IF result.passed THEN HiddenPassed ELSE HiddenFailed]
  ELSE result

\* result => ({ ...result, input: ..., expectedOutput: ..., actualOutput: ... })
RedactResult(result) ==
  IF "isHidden" \in DOMAIN result /\ result.isHidden      \* undefined is falsy
  THEN [result EXCEPT !.input = Hidden,
                      !.expectedOutput = Hidden,
                      !.actualOutput = IF result.passed THEN HiddenPassed ELSE HiddenFailed]
  ELSE result

Redact(results) == [i \in 1..Len(results) |-> RedactResult(results[i])]

-----------------------------------------------------------------------------
(* The HTTP handlers: submitCodeAsync, submitCodeSync, getSubmissionById.     *)
(* A step is one database call together with the code that runs until the    *)
(* next await; a run of executeTestCasesInParallel, which touches no shared   *)
(* state, is one step.                                                        *)

\* the problems table: problem 1 has test cases, problem 2 has none
ProblemTable == <<ProblemOf(2), ProblemOf(0)>>

LANGUAGE_IDS == {"javascript", "python", "java", "cpp", "c"}

\* request bodies; "" is a missing field, problem 3 does not exist
Bodies ==
  { [problemId |-> 1, code |-> "src", language |-> "python"],
    [problemId |-> 2, code |-> "src", language |-> "python"],
    [problemId |-> 3, code |-> "src", language |-> "python"],
    [problemId |-> 1, code |-> "src", language |-> "cobol"],
    [problemId |-> 1, code |-> "",    language |-> "python"] }

\* a failing prisma call: a known request error carries a code that starts with P
DbErrors == {"P2025", "connection"}

\* the global error handling middleware reached by next(error)
ErrorMiddleware(err) ==
  IF err = "P2025" THEN [code |-> 400, error |-> <<"Database error">>]
  ELSE [code |-> 500, error |-> <<"Internal server error">>]

Reject(code, msg) == [code |-> code, error |-> msg]

Handler(kind, body) ==
  [ kind |-> kind, body |-> body, pc |-> "find", sid |-> 0,
    results |-> <<>>, response |-> <<>>, threw |-> FALSE ]

Init ==
  /\ db = <<>>
  /\ reqs = <<>>
  /\ readResp = <<>>
  /\ bg = <<>>
  /\ tasks = <<>>
  /\ order = <<>>
  /\ sc = <<>>

Others == <<bg, tasks, order, sc>>

\* a submit request arrives; the body is validated
Arrive(kind, body) ==
  /\ Len(reqs) < MaxReqs
  /\ LET h == Handler(kind, body)
     IN reqs' = Append(reqs,
          IF body.code = ""
          THEN [h EXCEPT !.pc = "done",
                         !.response = <<Reject(400, <<"Missing required fields">>)>>]
          ELSE IF body.language \notin LANGUAGE_IDS
          THEN [h EXCEPT !.pc = "done",
                         !.response = <<Reject(400, <<"Unsupported language">>)>>]
          ELSE h)
  /\ UNCHANGED <<db, readResp, Others>>

\* the check of the test cases left out
HasNoTestCasesUnchecked(problem) == FALSE

\* if (problem.testCases.length === 0)
HasNoTestCases(problem) == Len(problem.testCases) = 0

\* await prisma.problem.findUnique returns
FindProblem(r) ==
  /\ reqs[r].pc = "find"
  /\ LET pid == reqs[r].body.problemId
     IN reqs' = [reqs EXCEPT ![r] =
          IF pid \notin 1..Len(ProblemTable)
          THEN [@ EXCEPT !.pc = "done", !.response = <<Reject(404, <<"Problem not found">>)>>]
          ELSE IF HasNoTestCases(ProblemTable[pid])
          THEN [@ EXCEPT !.pc = "done",
                         !.response = <<Reject(400, <<"Problem has no test cases">>)>>]
          ELSE [@ EXCEPT !.pc = "create"]]
  /\ UNCHANGED <<db, readResp, Others>>

\* a prisma call made before the submission exists throws: catch, next(error)
FailEarly(r) ==
  /\ reqs[r].pc \in {"find", "create"}
  /\ \E err \in DbErrors :
       reqs' = [reqs EXCEPT ![r] = [@ EXCEPT !.pc = "done", !.response = <<ErrorMiddleware(err)>>]]
  /\ UNCHANGED <<db, readResp, Others>>

TestsOf(r) == ProblemTable[reqs[r].body.problemId].testCases

\* await prisma.submission.create returns.  submitCodeAsync answers at once and starts
\* processSubmissionInBackground, which sends its first update
Create(r) ==
  /\ reqs[r].pc = "create"
  /\ db' = Append(db, NewSubmission(reqs[r].body.problemId,
                                    IF reqs[r].kind = "async" THEN "PENDING" ELSE "RUNNING"))
  /\ reqs' = [reqs EXCEPT ![r] =
       IF @.kind = "async"
       THEN [@ EXCEPT !.sid = Len(db) + 1, !.pc = "bg_start",
                      !.response = << [code |-> 200, submissionId |-> Len(db) + 1,
                                       status |-> <<"PENDING">>] >>]
       ELSE [@ EXCEPT !.sid = Len(db) + 1, !.pc = "exec"]]
  /\ UNCHANGED <<readResp, Others>>

\* processSubmissionInBackground: await update(status RUNNING)
AsyncRunning(r) ==
  /\ reqs[r].pc = "bg_start"
  /\ \/ /\ db' = Update(db, reqs[r].sid, [status |-> "RUNNING"])
        /\ reqs' = [reqs EXCEPT ![r] = [@ EXCEPT !.pc = "exec"]]
     \/ /\ reqs' = [reqs EXCEPT ![r] = [@ EXCEPT !.pc = "bg_catch", !.threw = TRUE]]
        /\ UNCHANGED db
  /\ UNCHANGED <<readResp, Others>>

\* await executeTestCasesInParallel returns; the final update is sent
Execute(r) ==
  /\ reqs[r].pc = "exec"
  /\ \E scripts \in ScriptChoices(TestsOf(r)) :
       reqs' = [reqs EXCEPT ![r] =
                  [@ EXCEPT !.pc = "update",
                            !.results = ExecuteTestCasesInParallel(TestsOf(r), scripts)]]
  /\ UNCHANGED <<db, readResp, Others>>

\* the body of the success response of submitCodeSync
SyncResponse(sid, results, tcs) ==
  LET agg == Aggregate(results, tcs)
  IN [ code            |-> 200,
       submissionId    |-> sid,
       status          |-> agg.overallStatus,
       passed          |-> agg.allTestsPassed,
       score           |-> agg.score,
       totalPoints     |-> agg.totalPoints,
       passedTests     |-> <<agg.passedTests, Len(tcs)>>,
       testCaseResults |-> Redact(results) ]

\* await update(COMPLETED, score, results) returns
FinalUpdate(r) ==
  /\ reqs[r].pc = "update"
  /\ db' = Update(db, reqs[r].sid, FinalData(reqs[r].results, TestsOf(r)))
  /\ reqs' = [reqs EXCEPT ![r] =
       IF @.kind = "sync"
       THEN [@ EXCEPT !.pc = "done",
                      !.response = <<SyncResponse(reqs[r].sid, reqs[r].results, TestsOf(r))>>]
       ELSE [@ EXCEPT !.pc = "done"]]
  /\ UNCHANGED <<readResp, Others>>

\* a final update that is not awaited: submitCodeSync answers although the write failed
OnFinalUpdateErrorUnnoticed(h, err) ==
  IF h.kind = "sync"
  THEN [h EXCEPT !.pc = "done",
                 !.response = <<SyncResponse(h.sid, h.results,
                                             ProblemTable[h.body.problemId].testCases)>>]
  ELSE [h EXCEPT !.pc = "bg_catch", !.threw = TRUE]

\* a catch block of submitCodeSync that logs the error and sends nothing
OnFinalUpdateErrorSilent(h, err) ==
  IF h.kind = "sync"
  THEN [h EXCEPT !.pc = "done", !.threw = TRUE]
  ELSE [h EXCEPT !.pc = "bg_catch", !.threw = TRUE]

\* the handler's reaction to a throwing update(COMPLETED, ...):
\* submitCodeSync: catch (error) { next(error) };
\* processSubmissionInBackground: the catch block sends update(ERROR)
OnFinalUpdateError(h, err) ==
  IF h.kind = "sync"
  THEN [h EXCEPT !.pc = "done", !.threw = TRUE, !.response = <<ErrorMiddleware(err)>>]
  ELSE [h EXCEPT !.pc = "bg_catch", !.threw = TRUE]

\* await update(COMPLETED, ...) throws
FinalUpdateFail(r) ==
  /\ reqs[r].pc = "update"
  /\ \E err \in DbErrors : reqs' = [reqs EXCEPT ![r] = OnFinalUpdateError(@, err)]
  /\ UNCHANGED <<db, readResp, Others>>

\* the catch block of processSubmissionInBackground: await update(ERROR, [System Error])
AsyncCatch(r) ==
  /\ reqs[r].pc = "bg_catch"
  /\ \/ /\ db' = Update(db, reqs[r].sid,
                        [status |-> "ERROR", results |-> SystemErrorResults(MsgDb)])
        /\ reqs' = [reqs EXCEPT ![r] = [@ EXCEPT !.pc = "done"]]
     \/ /\ reqs' = [reqs EXCEPT ![r] = [@ EXCEPT !.pc = "rejected"]]
        /\ UNCHANGED db
  /\ UNCHANGED <<readResp, Others>>

\* { ...submission, testCaseResults: ... } with submission read by
\* findUnique({ where: { id }, include: { problem: { include: { testCases: true } } } })
ReadResponse(id, submission) ==
  [ code            |-> 200,
    id              |-> id,
    problemId       |-> submission.problemId,
    status          |-> submission.status,
    score           |-> submission.score,
    results         |-> submission.results,
    problem         |-> ProblemTable[submission.problemId],
    testCaseResults |-> IF submission.results # NoResults THEN Redact(submission.results)
                        ELSE <<>> ]

\* getSubmissionById
GetSubmissionById(id) ==
  /\ \/ /\ id \in 1..Len(db)
        /\ readResp' = <<ReadResponse(id, db[id])>>
     \/ /\ id \notin 1..Len(db)
        /\ readResp' = <<Reject(404, <<"Submission not found">>)>>
     \/ \E err \in DbErrors : readResp' = <<ErrorMiddleware(err)>>
  /\ UNCHANGED <<db, reqs, Others>>

Next ==
  \/ \E kind \in {"async", "sync"}, body \in Bodies : Arrive(kind, body)
  \/ \E r \in 1..Len(reqs) : FindProblem(r)
  \/ \E r \in 1..Len(reqs) : FailEarly(r)
  \/ \E r \in 1..Len(reqs) : Create(r)
  \/ \E r \in 1..Len(reqs) : AsyncRunning(r)
  \/ \E r \in 1..Len(reqs) : Execute(r)
  \/ \E r \in 1..Len(reqs) : FinalUpdate(r)
  \/ \E r \in 1..Len(reqs) : FinalUpdateFail(r)
  \/ \E r \in 1..Len(reqs) : AsyncCatch(r)
  \/ \E id \in 1..(Len(db) + 1) : GetSubmissionById(id)

Spec == Init /\ [][Next]_vars

\* the handler of request r has sent its response, or has returned
Due(h) ==
  \/ h.pc \in {"done", "rejected", "bg_start", "bg_catch"}
  \/ h.kind = "async" /\ h.pc \in {"exec", "update"}

\* C36: every request to submitCodeSync or submitCodeAsync gets exactly one response
\* on every path: none before the handler answers, one from then on, and no step
\* (a failure of the background processing included) sends another one
C36_ExactlyOneResponse ==
  [][\A r \in 1..Len(reqs') :
       /\ Len(reqs'[r].response) = (IF Due(reqs'[r]) THEN 1 ELSE 0)
       /\ (r <= Len(reqs) /\ reqs[r].response # <<>>) => reqs'[r].response = reqs[r].response]_vars

\* C36 witness: the background processing of an answered asynchronous request
\* failed, its catch block included, and the request has its one response
C36_Witness ==
  \E r \in 1..Len(reqs) :
    /\ reqs[r].kind = "async" /\ reqs[r].pc = "rejected" /\ reqs[r].threw
    /\ Len(reqs[r].response) = 1 /\ reqs[r].response[1].code = 200

\* C37: the persisted score of a submission is set if and only if its persisted
\* status is COMPLETED; a PENDING, RUNNING or ERROR submission has no score
C37_ScoreIffCompleted ==
  \A id \in 1..Len(db) :
    /\ db[id].status \in {"PENDING", "RUNNING", "COMPLETED", "ERROR"}
    /\ (db[id].score # NoScore) <=> (db[id].status = "COMPLETED")

\* C37 witness: the test cases were run, so that a score could be computed, the
\* final update failed and the submission is stored as ERROR, without a score
C37_Witness ==
  \E r \in 1..Len(reqs) :
    /\ reqs[r].kind = "async" /\ reqs[r].pc = "done" /\ reqs[r].threw
    /\ reqs[r].results # <<>>
    /\ db[reqs[r].sid].status = "ERROR" /\ db[reqs[r].sid].score = NoScore

\* what makes a request body invalid
MissingField(body) == body.code = ""
UnknownLanguage(body) == body.language \notin {"javascript", "python", "java", "cpp", "c"}
UnknownProblem(body) == body.problemId \notin 1..Len(ProblemTable)
EmptyProblem(body) ==
  body.problemId \in 1..Len(ProblemTable) /\ ProblemTable[body.problemId].testCases = <<>>

InvalidRequest(body) ==
  MissingField(body) \/ UnknownLanguage(body) \/ UnknownProblem(body) \/ EmptyProblem(body)

Rank(status) ==
  CASE status = "PENDING" -> 0
    [] status = "RUNNING" -> 1
    [] status \in {"COMPLETED", "ERROR"} -> 2

SyncAnswered(r) ==
  /\ reqs[r].kind = "sync"
  /\ reqs[r].response # <<>>
  /\ reqs[r].response[1].code = 200

\* C14: when submitCodeSync has sent its success response, the write of the final
\* status, score and results of the submission has completed
C14_PersistedBeforeSyncResponse ==
  \A r \in 1..Len(reqs) :
    SyncAnswered(r) =>
      /\ reqs[r].sid \in 1..Len(db)
      /\ db[reqs[r].sid].status = "COMPLETED"
      /\ db[reqs[r].sid].score = << reqs[r].response[1].score >>
      /\ db[reqs[r].sid].results = reqs[r].results

\* C14 witness: a success response of submitCodeSync with a score above 0
C14_Witness ==
  \E r \in 1..Len(reqs) :
    /\ SyncAnswered(r)
    /\ reqs[r].response[1].score > 0
    /\ db[reqs[r].sid].status = "COMPLETED"

\* C32: in the success response of submitCodeSync, status is "Accepted" exactly when
\* passed is true, passed is true exactly when every result passed, and status is
\* "Wrong Answer" otherwise, whatever made a result fail
C32_AcceptedIffAllPassed ==
  \A r \in 1..Len(reqs) :
    SyncAnswered(r) =>
      LET body == reqs[r].response[1]
      IN /\ body.status = <<"Accepted">> <=> body.passed = TRUE
         /\ body.passed = TRUE <=> \A i \in 1..Len(reqs[r].results) : reqs[r].results[i].passed
         /\ body.passed = FALSE => body.status = <<"Wrong Answer">>
         /\ body.status \in {<<"Accepted">>, <<"Wrong Answer">>}

\* C32 witness: a response "Wrong Answer" for a run in which a call of the engine
\* failed and the result carries the status "Error"
C32_Witness ==
  \E r \in 1..Len(reqs) :
    /\ SyncAnswered(r)
    /\ reqs[r].response[1].status = <<"Wrong Answer">>
    /\ \E i \in 1..Len(reqs[r].results) : reqs[r].results[i].status = <<"Error">>
    /\ \E i \in 1..Len(reqs[r].results) : reqs[r].results[i].passed

\* C15: a getSubmissionById that follows the success response of submitCodeSync for
\* the same submission returns the status, the score and the redacted test-case
\* results of that response
C15_ReadAgreesWithSyncResponse ==
  [][\A r \in 1..Len(reqs) :
       (/\ SyncAnswered(r)
        /\ readResp' # readResp
        /\ readResp'[1].code = 200
        /\ readResp'[1].id = reqs[r].sid)
         => /\ readResp'[1].score = << reqs[r].response[1].score >>
            /\ readResp'[1].testCaseResults = reqs[r].response[1].testCaseResults
            /\ << readResp'[1].status >> = reqs[r].response[1].status]_vars

\* the response of submitCodeAsync for submission sid
PendingAnswer(sid) == << [code |-> 200, submissionId |-> sid, status |-> <<"PENDING">>] >>

\* C16: submitCodeAsync creates the submission PENDING and sends its response
\* (identifier, PENDING) in the same turn; the write of RUNNING and the requests to
\* the engine for that submission come only after that response
C16_AsyncAnswersBeforeRunning ==
  [][\A r \in 1..Len(reqs) :
       reqs[r].kind = "async" =>
         /\ (reqs[r].sid = 0 /\ reqs'[r].sid # 0)
              => /\ reqs'[r].sid = Len(db) + 1
                 /\ db'[reqs'[r].sid].status = "PENDING"
                 /\ reqs'[r].response = PendingAnswer(reqs'[r].sid)
                 /\ reqs'[r].results = <<>>
         /\ (reqs[r].sid # 0 /\ (db'[reqs[r].sid] # db[reqs[r].sid]
                                  \/ reqs'[r].results # reqs[r].results))
              => /\ reqs[r].response = PendingAnswer(reqs[r].sid)
                 /\ reqs'[r].response = reqs[r].response
         /\ (reqs[r].sid # 0 /\ reqs'[r].results # reqs[r].results)
              => db[reqs[r].sid].status = "RUNNING"]_vars

\* C16 witness: the response of submitCodeAsync is out, the submission is still
\* PENDING and nothing was sent to the engine
C16_Witness ==
  \E r \in 1..Len(reqs) :
    /\ reqs[r].kind = "async" /\ reqs[r].pc = "bg_start"
    /\ reqs[r].response = PendingAnswer(reqs[r].sid)
    /\ db[reqs[r].sid].status = "PENDING"
    /\ reqs[r].results = <<>>

-----------------------------------------------------------------------------
(* Reads of a finished submission while other submissions are evaluated: the   *)
(* table starts with one submission that an earlier submitCodeSync or          *)
(* processSubmissionInBackground run has left COMPLETED.                       *)

\* the row a finished evaluation of problem 1 leaves behind, when every test case
\* passed and when every call timed out
CompletedRows ==
  LET tcs == ProblemTable[1].testCases
  IN { Update(<< NewSubmission(1, "RUNNING") >>, 1,
              FinalData(ExecuteTestCasesInParallel(tcs, scripts), tcs))[1]
       : scripts \in { [i \in 1..Len(tcs) |-> ScriptPass(tcs[i])],
                       [i \in 1..Len(tcs) |-> ScriptStuck] } }

InitReads ==
  /\ \E row \in CompletedRows : db = << row >>
  /\ reqs = <<>>
  /\ readResp = <<>>
  /\ bg = <<>>
  /\ tasks = <<>>
  /\ order = <<>>
  /\ sc = <<>>

SpecReads == InitReads /\ [][Next]_vars

\* a successful read of submission id
ReadOf(resp, id) == resp # <<>> /\ resp[1].code = 200 /\ resp[1].id = id

\* C17: getSubmissionById writes nothing, a COMPLETED submission is not changed by
\* the evaluation of other submissions, a read returns the score and the results
\* the table holds, and so two reads of a COMPLETED submission return the same
\* score and the same results whatever is evaluated between them
C17_ReadsOfCompletedAgree ==
  [][/\ readResp' # readResp => (db' = db /\ reqs' = reqs)
     /\ \A id \in 1..Len(db) :
          /\ db[id].status = "COMPLETED" => db'[id] = db[id]
          /\ (ReadOf(readResp', id) /\ readResp' # readResp)
               => /\ readResp'[1].status = db[id].status
                  /\ readResp'[1].score = db[id].score
                  /\ readResp'[1].results = db[id].results
                  /\ readResp'[1].testCaseResults = Redact(db[id].results)
          /\ (ReadOf(readResp, id) /\ ReadOf(readResp', id)
               /\ readResp[1].status = "COMPLETED")
               => /\ readResp'[1].score = readResp[1].score
                  /\ readResp'[1].results = readResp[1].results
                  /\ readResp'[1].testCaseResults = readResp[1].testCaseResults]_vars

\* C17 witness: the COMPLETED submission 1 has been read while a second submission
\* is COMPLETED as well, with another score
C17_Witness ==
  /\ ReadOf(readResp, 1) /\ readResp[1].status = "COMPLETED"
  /\ Len(db) = 2 /\ db[2].status = "COMPLETED"
  /\ db[2].score # db[1].score
  /\ readResp[1].score = db[1].score

-----------------------------------------------------------------------------
(* The persistence writes of a lifecycle, each split into the call of          *)
(* prisma.submission.update and its return.  Two lifecycles run side by side:  *)
(* processSubmissionInBackground (server.js) on submission 1 and, on            *)
(* submission 2, submitCodeSync (server.js) or the handler with incremental    *)
(* persistence (routes/submissions.js, router.post('/')).  A result is reduced *)
(* to its passed flag.                                                         *)

Lifecycle(kind, id, n) ==
  [ kind |-> kind, id |-> id, n |-> n, turn |-> 0, pc |-> "start", waiting |-> FALSE,
    results |-> <<>> ]

InitWrites ==
  /\ \E n1, n2 \in 1..MaxTests, kind2 \in {"incremental", "sync"} :
       /\ bg = << Lifecycle("background", 1, n1), Lifecycle(kind2, 2, n2) >>
       /\ db = << NewSubmission(1, "PENDING"),
                  NewSubmission(1, IF kind2 = "sync" THEN "RUNNING" ELSE "Processing") >>
  /\ tasks = <<>>
  /\ order = <<>>
  /\ reqs = <<>>
  /\ readResp = <<>>
  /\ sc = <<>>

\* a call that is not awaited: the lifecycle goes on at once
NotAwaited(next) == [pc |-> next, waiting |-> FALSE]

\* await <call>: the lifecycle goes on at next when the call has returned
Await(next) == [pc |-> next, waiting |-> TRUE]

\* the identifier of the write taken from a variable that the lifecycles share
IssueWriteSharedId(l, lc, what, data, next) ==
  /\ tasks' = Append(tasks, [id |-> bg[1].id, by |-> l, what |-> what, data |-> data])
  /\ bg' = [bg EXCEPT ![l] = [lc EXCEPT !.pc = Await(next).pc,
                                        !.waiting = Await(next).waiting]]

\* await prisma.submission.update({ where: { id }, data }) is called by lifecycle l,
\* whose record is lc
IssueWrite(l, lc, what, data, next) ==
  /\ tasks' = Append(tasks, [id |-> lc.id, by |-> l, what |-> what, data |-> data])
  /\ bg' = [bg EXCEPT ![l] = [lc EXCEPT !.pc = Await(next).pc,
                                        !.waiting = Await(next).waiting]]

Ready(l, kind, pc) == bg[l].kind = kind /\ bg[l].pc = pc /\ ~bg[l].waiting

\* processSubmissionInBackground: update(status RUNNING)
WriteRunning(l) ==
  /\ Ready(l, "background", "start")
  /\ IssueWrite(l, bg[l], "running", [status |-> "RUNNING"], "exec")
  /\ UNCHANGED <<db, order, reqs, readResp, sc>>

\* processSubmissionInBackground, submitCodeSync: executeTestCasesInParallel returns
RunAllTests(l) ==
  /\ Ready(l, "background", "exec") \/ Ready(l, "sync", "start")
  /\ \E passed \in [1..bg[l].n -> BOOLEAN] :
       bg' = [bg EXCEPT ![l].pc = "final",
                        ![l].results = [i \in 1..bg[l].n |-> [passed |-> passed[i]]]]
  /\ UNCHANGED <<db, tasks, order, reqs, readResp, sc>>

\* processSubmissionInBackground, submitCodeSync: update(COMPLETED, score, results)
WriteFinal(l) ==
  /\ Ready(l, "background", "final") \/ Ready(l, "sync", "final")
  /\ IssueWrite(l, bg[l], "final",
                FinalData(bg[l].results, ProblemOf(bg[l].n).testCases),
                IF bg[l].kind = "sync" THEN "respond" ELSE "done")
  /\ UNCHANGED <<db, order, reqs, readResp, sc>>

\* processSubmissionInBackground: the catch block, update(ERROR, [System Error])
WriteError(l) ==
  /\ Ready(l, "background", "catch")
  /\ IssueWrite(l, bg[l], "error",
                [status |-> "ERROR", results |-> SystemErrorResults(MsgDb)], "done")
  /\ UNCHANGED <<db, order, reqs, readResp, sc>>

\* routes/submissions.js: the handler enters the loop over the test cases
EnterLoop(l) ==
  /\ Ready(l, "incremental", "start")
  /\ bg' = [bg EXCEPT ![l].pc = "loop"]
  /\ UNCHANGED <<db, tasks, order, reqs, readResp, sc>>

\* overallStatus, with the status of a failed result reduced to one label
OverallStatus(results) == IF AllPassed(results) THEN "Accepted" ELSE "Wrong Answer"

\* routes/submissions.js: one turn of the loop: executeCode returns, the result is
\* pushed and update(status: result.status, results: testCaseResults) is called
WritePartial(l) ==
  /\ Ready(l, "incremental", "loop")
  /\ bg[l].turn < bg[l].n
  /\ \E passed \in BOOLEAN :
       LET results == Append(bg[l].results, [passed |-> passed])
       IN IssueWrite(l, [bg[l] EXCEPT !.results = results, !.turn = @ + 1], "partial",
                     [status |-> OverallStatus(<<[passed |-> passed]>>), results |-> results],
                     "loop")
  /\ UNCHANGED <<db, order, reqs, readResp, sc>>

\* routes/submissions.js: the loop is over, the final update is called
WriteFinalIncremental(l) ==
  /\ Ready(l, "incremental", "loop")
  /\ bg[l].turn = bg[l].n
  /\ IssueWrite(l, bg[l], "incfinal",
                [status  |-> OverallStatus(bg[l].results),
                 score   |-> << 25 * CountPassed(bg[l].results) >>,
                 results |-> bg[l].results],
                "respond")
  /\ UNCHANGED <<db, order, reqs, readResp, sc>>

\* routes/submissions.js, submitCodeSync: res.json
Respond(l) ==
  /\ Ready(l, "incremental", "respond") \/ Ready(l, "sync", "respond")
  /\ bg' = [bg EXCEPT ![l].pc = "done"]
  /\ UNCHANGED <<db, tasks, order, reqs, readResp, sc>>

Without(seq, w) == [i \in 1..(Len(seq) - 1) |-> IF i < w THEN seq[i] ELSE seq[i + 1]]

\* the database applies write w and the call returns: the lifecycle that awaits it resumes
WriteReturns(w) ==
  /\ db' = Update(db, tasks[w].id, tasks[w].data)
  /\ tasks' = Without(tasks, w)
  /\ bg' = [bg EXCEPT ![tasks[w].by].waiting = FALSE]
  /\ UNCHANGED <<order, reqs, readResp, sc>>

\* where a lifecycle that awaits a write goes on when the write throws
OnWriteError(lc, what) ==
  CASE what = "final" /\ lc.kind = "sync" -> [lc EXCEPT !.pc = "done", !.waiting = FALSE]
    [] what = "final" /\ lc.kind # "sync" -> [lc EXCEPT !.pc = "catch", !.waiting = FALSE]
    [] what = "running"  -> [lc EXCEPT !.pc = "catch", !.waiting = FALSE]
    [] what = "error"    -> [lc EXCEPT !.pc = "rejected", !.waiting = FALSE]
    [] what = "partial"  -> [lc EXCEPT !.results = Append(@, [passed |-> FALSE]),
                                       !.waiting = FALSE]
    [] what = "incfinal" -> [lc EXCEPT !.pc = "done", !.waiting = FALSE]

\* write w fails: the await throws in the lifecycle that awaits it
WriteThrows(w) ==
  /\ tasks' = Without(tasks, w)
  /\ bg' = [bg EXCEPT ![tasks[w].by] = IF @.waiting THEN OnWriteError(@, tasks[w].what) ELSE @]
  /\ UNCHANGED <<db, order, reqs, readResp, sc>>

NextWrites ==
  \/ \E l \in 1..Len(bg) : WriteRunning(l)
  \/ \E l \in 1..Len(bg) : RunAllTests(l)
  \/ \E l \in 1..Len(bg) : WriteError(l)
  \/ \E l \in 1..Len(bg) : WriteFinal(l)
  \/ \E l \in 1..Len(bg) : EnterLoop(l)
  \/ \E l \in 1..Len(bg) : WritePartial(l)
  \/ \E l \in 1..Len(bg) : WriteFinalIncremental(l)
  \/ \E l \in 1..Len(bg) : Respond(l)
  \/ \E w \in 1..Len(tasks) : WriteReturns(w)
  \/ \E w \in 1..Len(tasks) : WriteThrows(w)

SpecWrites == InitWrites /\ [][NextWrites]_vars

\* the writes to submission id that are in flight
InFlight(id) == { w \in 1..Len(tasks) : tasks[w].id = id }

\* C18: at most one write to a submission is in flight at any time, and a lifecycle
\* calls its next write only when none of its writes is in flight
C18_WritesSerialized ==
  [][/\ \A id \in 1..Len(db) : Cardinality(InFlight(id)) <= 1
     /\ \A l \in 1..Len(bg) :
          Cardinality({ w \in 1..Len(tasks') : tasks'[w].id = bg[l].id })
            > Cardinality(InFlight(bg[l].id))
          => InFlight(bg[l].id) = {}]_vars

\* C18 witness: a partial write of the incremental handler is in flight after an
\* earlier one has returned, while the final write of the background run is in flight
C18_Witness ==
  /\ \E w \in InFlight(2) : tasks[w].what = "partial" /\ Len(tasks[w].data.results) >= 2
  /\ db[2].results # NoResults
  /\ \E w \in InFlight(1) : tasks[w].what = "final"
  /\ db[1].status = "RUNNING"

\* C19: under every interleaving of the lifecycles, a change of the table is the
\* return of one write that a lifecycle sent for its own submission, and it changes
\* the row of that submission only: the rows of all other submissions stay as they are
C19_WritesOwnRecordOnly ==
  [][/\ \A w \in 1..Len(tasks) : tasks[w].id = bg[tasks[w].by].id
     /\ db' # db =>
          \E w \in 1..Len(tasks) :
            /\ tasks' = Without(tasks, w)
            /\ tasks[w].id = bg[tasks[w].by].id
            /\ Len(db') = Len(db)
            /\ \A id \in 1..Len(db) : id # tasks[w].id => db'[id] = db[id]]_vars

\* C19 witness: both submissions have been written by their lifecycles, which are
\* still running, and hold different results
C19_Witness ==
  /\ db[1].status = "RUNNING" /\ bg[1].pc = "final"
  /\ bg[2].kind = "sync" /\ db[2].status = "COMPLETED" /\ bg[2].pc = "respond"
  /\ db[2].results # NoResults /\ db[1].results = NoResults

-----------------------------------------------------------------------------
(* The sequential POST / handlers of routes/submissions.js: the second         *)
(* revision, which persists the accumulated results after every test case,    *)
(* and the third revision, which persists once after the loop.  bg is the     *)
(* handler, db the table with the one row it creates, readResp its response.  *)
(* A step is one database call with the code that runs until the next one;    *)
(* a call of executeCode, which touches no shared state, belongs to the step.  *)

\* the column value of a status text
Label(text) == text[1]

MsgSeqTimeout == <<"Execution timeout - submission took too long">>
MsgUnsupported == <<"Unsupported language">>

\* the outcome returned by the catch block of executeCode: the second revision
\* copies expectedOutput as it came, the third its trimmed form
SeqErrorOutcome(rev, msg, expectedOutput) ==
  [ passed         |-> FALSE,
    output         |-> <<>>,
    expectedOutput |-> IF rev = 2 THEN expectedOutput ELSE Trim(expectedOutput),
    executionTime  |-> 0,
    memoryUsed     |-> 0,
    status         |-> <<"Error">>,
    error          |-> msg ]

\* what executeCode can return for test case tc
SeqOutcomes(rev, tc) ==
       { TerminalOutcome(r, tc.output) : r \in TerminalResponses(tc) }
  \cup { SeqErrorOutcome(rev, msg, tc.output)
         : msg \in {MsgNetwork, MsgSubmitFailed, MsgPollFailed, MsgSeqTimeout} }

\* the result pushed by the catch block inside the loop of the second revision
RuntimeErrorResult(tc, msg) ==
  [ input          |-> tc.input,
    expectedOutput |-> tc.output,
    actualOutput   |-> <<>>,
    passed         |-> FALSE,
    executionTime  |-> 0,
    memoryUsed     |-> 0,
    status         |-> <<"Runtime Error">>,
    error          |-> msg,
    isHidden       |-> tc.isHidden ]

SeqHandler(rev, n, language) ==
  [ rev |-> rev, n |-> n, language |-> language, pc |-> "validate", turn |-> 0,
    testCaseResults |-> <<>>, allTestsPassed |-> TRUE, overallStatus |-> <<"Accepted">>,
    threw |-> Null ]

InitSeq ==
  /\ \E rev \in {2, 3}, n \in 0..MaxTests, language \in {"python", "cobol"} :
       bg = SeqHandler(rev, n, language)
  /\ db = <<>>
  /\ readResp = <<>>
  /\ reqs = <<>>
  /\ tasks = <<>>
  /\ order = <<>>
  /\ sc = <<>>

SeqDone(response) ==
  /\ bg' = [bg EXCEPT !.pc = "done"]
  /\ readResp' = <<response>>

\* the validation of the request: only the second revision checks the language
SeqValidate ==
  /\ bg.pc = "validate"
  /\ IF bg.rev = 2 /\ bg.language \notin LANGUAGE_IDS
     THEN SeqDone(Reject(400, <<"Unsupported language">>))
     ELSE bg' = [bg EXCEPT !.pc = "create"] /\ UNCHANGED readResp
  /\ UNCHANGED <<db, reqs, tasks, order, sc>>

\* prisma.submission.create: status 'Processing' (second revision), 'PENDING' (third)
SeqCreate ==
  /\ bg.pc = "create"
  /\ \/ /\ db' = Append(db, NewSubmission(1, IF bg.rev = 2 THEN "Processing" ELSE "PENDING"))
        /\ bg' = [bg EXCEPT !.pc = "loop"]
        /\ UNCHANGED readResp
     \/ /\ SeqDone(Reject(500, MsgDb))
        /\ UNCHANGED db
  /\ UNCHANGED <<reqs, tasks, order, sc>>

\* testCaseResults.push(...); if (!result.passed) { allTestsPassed = false;
\* overallStatus = result.status }
Pushed(h, tc, result) ==
  [h EXCEPT !.testCaseResults = Append(@, TestCaseResult(tc, result)),
            !.allTestsPassed = @ /\ result.passed,
            !.overallStatus = IF result.passed THEN @ ELSE result.status,
            !.turn = @ + 1]

\* second revision, one turn of the loop: executeCode, push, update(status:
\* result.status, results: testCaseResults); when the update throws, the catch block
\* of the turn pushes a result of its own
SeqTurnIncremental ==
  /\ bg.rev = 2 /\ bg.pc = "loop" /\ bg.turn < bg.n
  /\ LET tc == TestCaseAt(bg.turn + 1)
     IN \E result \in SeqOutcomes(2, tc) :
          LET h == Pushed(bg, tc, result)
          IN \/ /\ db' = Update(db, 1, [status  |-> Label(result.status),
                                        results |-> h.testCaseResults])
                /\ bg' = h
             \/ /\ bg' = [h EXCEPT !.testCaseResults = Append(@, RuntimeErrorResult(tc, MsgDb)),
                                   !.allTestsPassed = FALSE,
                                   !.overallStatus = <<"Runtime Error">>]
                /\ UNCHANGED db
  /\ UNCHANGED <<readResp, reqs, tasks, order, sc>>

\* third revision, one turn of the loop: executeCode, push; executeCode throws
\* before its try block when the language is not in its map
SeqTurn ==
  /\ bg.rev = 3 /\ bg.pc = "loop" /\ bg.turn < bg.n
  /\ LET tc == TestCaseAt(bg.turn + 1)
     IN IF bg.language \notin LANGUAGE_IDS
        THEN bg' = [bg EXCEPT !.pc = "catch", !.threw = MsgUnsupported]
        ELSE \E result \in SeqOutcomes(3, tc) : bg' = Pushed(bg, tc, result)
  /\ UNCHANGED <<db, readResp, reqs, tasks, order, sc>>

\* second revision after the loop: 25 points per passed result, the final update,
\* res.json; a throw of the update reaches the catch block of the handler
SeqFinalIncremental ==
  /\ bg.rev = 2 /\ bg.pc = "loop" /\ bg.turn = bg.n
  /\ \/ /\ db' = Update(db, 1, [status  |-> Label(bg.overallStatus),
                                score   |-> << 25 * CountPassed(bg.testCaseResults) >>,
                                results |-> bg.testCaseResults])
        /\ SeqDone([ code            |-> 200,
                     submissionId    |-> 1,
                     status          |-> bg.overallStatus,
                     passed          |-> bg.allTestsPassed,
                     testCaseResults |-> bg.testCaseResults ])
     \/ /\ UNCHANGED db
        /\ SeqDone(Reject(500, MsgDb))
  /\ UNCHANGED <<reqs, tasks, order, sc>>

\* third revision after the loop: the score, the update, res.json with the hidden
\* results redacted; a throw of the update reaches the inner catch block
SeqFinal ==
  /\ bg.rev = 3 /\ bg.pc = "loop" /\ bg.turn = bg.n
  /\ LET tcs == ProblemOf(bg.n).testCases
         \* without test cases the quotient is 0 / 0: the score is NaN, which is sent
         \* as null both to the database and in the response
         score == IF Len(tcs) = 0 THEN NoScore
                  ELSE << ScoreOf(CountPassed(bg.testCaseResults), Len(tcs), SumPoints(tcs)) >>
     IN \/ /\ db' = Update(db, 1, [status  |-> Label(bg.overallStatus),
                                   score   |-> score,
                                   results |-> bg.testCaseResults])
           /\ SeqDone([ code            |-> 200,
                        submissionId    |-> 1,
                        status          |-> bg.overallStatus,
                        passed          |-> bg.allTestsPassed,
                        score           |-> score,
                        testCaseResults |-> Redact(bg.testCaseResults) ])
        \/ /\ bg' = [bg EXCEPT !.pc = "catch", !.threw = MsgDb]
           /\ UNCHANGED <<db, readResp>>
  /\ UNCHANGED <<reqs, tasks, order, sc>>

\* third revision, inner catch block: update(ERROR, one 'System Error' result) and
\* the 500 response; a throw of that update reaches the catch block of the handler
SeqCatch ==
  /\ bg.pc = "catch"
  /\ \/ /\ db' = Update(db, 1, [status |-> "ERROR", results |-> SystemErrorResults(bg.threw)])
        /\ SeqDone([ code            |-> 500,
                     submissionId    |-> 1,
                     status          |-> <<"Error">>,
                     passed          |-> FALSE,
                     error           |-> bg.threw,
                     testCaseResults |-> <<>> ])
     \/ /\ UNCHANGED db
        /\ SeqDone(Reject(500, MsgDb))
  /\ UNCHANGED <<reqs, tasks, order, sc>>

NextSeq ==
  \/ SeqValidate
  \/ SeqCreate
  \/ SeqTurnIncremental
  \/ SeqTurn
  \/ SeqFinalIncremental
  \/ SeqFinal
  \/ SeqCatch

SpecSeq == InitSeq /\ [][NextSeq]_vars

\* the handler has answered with its success response
SeqAnswered == bg.pc = "done" /\ readResp[1].code = 200

\* C21: in the second revision neither the persisted results nor the results of the
\* response have more entries than the problem has test cases
C21_ResultsWithinTestCaseCount ==
  bg.rev = 2 =>
    /\ db # <<>> /\ db[1].results # NoResults => Len(db[1].results) <= bg.n
    /\ SeqAnswered => Len(readResp[1].testCaseResults) <= bg.n

\* results holds one result for each of the first k test cases, in their order
ResultsOfFirst(results, k) ==
  /\ Len(results) = k
  /\ \A i \in 1..k : /\ results[i].input = TestCaseAt(i).input
                     /\ results[i].expectedOutput = TestCaseAt(i).output

\* C22: in the second revision, every results value that is persisted, after the k-th
\* test case has been evaluated, is the results of the first k test cases in their order
C22_PersistedAreFirstResults ==
  [][(bg.rev = 2 /\ db # <<>> /\ db'[1].results # db[1].results)
       => ResultsOfFirst(db'[1].results, bg'.turn)]_vars

\* C31: a request that names an unsupported language, or a problem without test
\* cases, is rejected by the sequential handlers with no submission record created
\* and no call of the engine
C31_InvalidRejectedBySequentialHandlers ==
  (bg.language \notin LANGUAGE_IDS \/ bg.n = 0) =>
    /\ db = <<>>
    /\ bg.turn = 0
    /\ bg.pc = "done" => readResp[1].code \in {400, 500}

\* the status of the first result that did not pass
RECURSIVE FirstFailingStatus(_)
FirstFailingStatus(results) ==
  IF Head(results).passed THEN FirstFailingStatus(Tail(results)) ELSE Head(results).status

\* C23: in the second and third revisions, when not all test cases pass, the overall
\* status that is persisted and returned is the status of the first failing test case
C23_FirstFailureWins ==
  (SeqAnswered /\ ~ readResp[1].passed) =>
    /\ readResp[1].status = FirstFailingStatus(readResp[1].testCaseResults)
    /\ db[1].status = Label(FirstFailingStatus(db[1].results))

\* the values of the status column that the schema names
SubmissionStatus == {"PENDING", "RUNNING", "COMPLETED", "ERROR"}

\* C24: the persisted status of a submission is always one of PENDING, RUNNING,
\* COMPLETED, ERROR
C24_StatusIsLifecycleState ==
  \A id \in 1..Len(db) : db[id].status \in SubmissionStatus

-----------------------------------------------------------------------------
(* getProblemById (controllers/problemController.js and .ts).  db is here the  *)
(* problems table, readResp the response of the latest call.                   *)

\* a stored test case of problem p with its identifier and hidden flag
StoredTestCase(p, i, hidden) ==
  [ id |-> <<p, i>>, problemId |-> p, input |-> TestCaseAt(i).input,
    output |-> TestCaseAt(i).output, isHidden |-> hidden, points |-> TestCaseAt(i).points ]

\* the problems of at most MaxTests test cases, hidden or not
StoredProblems(p) ==
  { [ id |-> p, timeLimit |-> 2000, memoryLimit |-> 128,
      testCases |-> [i \in 1..n |-> StoredTestCase(p, i, i \in hiddenOnes)] ]
    : n \in 0..MaxTests, hiddenOnes \in SUBSET (1..MaxTests) }

InitProblems ==
  /\ \E p1 \in StoredProblems(1), p2 \in StoredProblems(2) : db = <<p1, p2>>
  /\ readResp = <<>>
  /\ bg = <<>>
  /\ reqs = <<>>
  /\ tasks = <<>>
  /\ order = <<>>
  /\ sc = <<>>

\* select: { id: true, input: true, output: true, points: true }
SelectedFields(tc) == [id |-> tc.id, input |-> tc.input, output |-> tc.output, points |-> tc.points]

\* the relation read without its where clause
TestCasesUnfiltered(tcs) == [i \in 1..Len(tcs) |-> SelectedFields(tcs[i])]

\* testCases: { where: { isHidden: false }, select: { ... } }
VisibleTestCases(tcs) ==
  LET kept == SelectSeq(tcs, LAMBDA tc : tc.isHidden = FALSE)
  IN [i \in 1..Len(kept) |-> SelectedFields(kept[i])]

\* getProblemById
GetProblemById(id) ==
  /\ \/ /\ id \in 1..Len(db)
        /\ readResp' = << [ code |-> 200, id |-> id, timeLimit |-> db[id].timeLimit,
                            memoryLimit |-> db[id].memoryLimit,
                            testCases |-> VisibleTestCases(db[id].testCases) ] >>
     \/ /\ id \notin 1..Len(db)
        /\ readResp' = << [code |-> 404, error |-> <<"Problem not found">>, problemId |-> id] >>
     \/ readResp' = << [code |-> 500, error |-> <<"Failed to fetch problem">>, message |-> MsgDb] >>
  /\ UNCHANGED <<db, bg, reqs, tasks, order, sc>>

NextProblems == \E id \in 1..3 : GetProblemById(id)

SpecProblems == InitProblems /\ [][NextProblems]_vars

\* C29: the test cases in a response of getProblemById are the test cases of the
\* problem whose hidden flag is not set, each once and with its own input, output and
\* points, and no other
C29_ProblemListsVisibleTestsOnly ==
  (readResp # <<>> /\ readResp[1].code = 200) =>
    LET listed == readResp[1].testCases
        stored == db[readResp[1].id].testCases
    IN /\ \A i \in 1..Len(stored) :
            stored[i].isHidden <=> ~ \E k \in 1..Len(listed) : listed[k].id = stored[i].id
       /\ \A k \in 1..Len(listed) :
            /\ \E i \in 1..Len(stored) :
                 /\ listed[k].id = stored[i].id
                 /\ listed[k].input = stored[i].input
                 /\ listed[k].output = stored[i].output
                 /\ listed[k].points = stored[i].points
            /\ \A k2 \in 1..Len(listed) : listed[k2].id = listed[k].id => k2 = k
            /\ "isHidden" \notin DOMAIN listed[k]

\* C29 witness: a response for a problem with a hidden first and a visible second
\* test case, which lists the second alone
C29_Witness ==
  /\ readResp # <<>> /\ readResp[1].code = 200
  /\ Len(db[readResp[1].id].testCases) = 2
  /\ db[readResp[1].id].testCases[1].isHidden
  /\ ~ db[readResp[1].id].testCases[2].isHidden
  /\ Len(readResp[1].testCases) = 1
  /\ readResp[1].testCases[1].id = db[readResp[1].id].testCases[2].id

-----------------------------------------------------------------------------
(* processSubmission and executeCode of the first revision of                  *)
(* routes/submissions.js, step by step.  bg is the run: pc is the place of     *)
(* processSubmission, call the place of the executeCode call of the current    *)
(* test case.                                                                  *)

\* the outcome executeCode returns on an answer with a status id above 2
FirstTerminalOutcome(r) ==
  [ passed        |-> (r.statusId = 3),
    executionTime |-> r.time,
    memoryUsed    |-> r.memory,
    status        |-> r.description,
    output        |-> OrElse(r.stdout, <<>>),
    error         |-> OrElse(r.stderr, <<>>) ]

\* the outcome returned by the catch block of executeCode
FirstErrorOutcome(msg) ==
  [ passed |-> FALSE, executionTime |-> 0, memoryUsed |-> 0, status |-> <<"Runtime Error">>,
    output |-> <<>>, error |-> msg ]

MsgNoStatus == <<"Cannot read properties of undefined (reading 'id')">>

InitProcess ==
  /\ \E n \in 1..MaxTests :
       bg = [ pc |-> "start", call |-> "idle", id |-> 1, problem |-> ProblemOf(n),
              turn |-> 0, results |-> <<>>, totalScore |-> 0 ]
  /\ db = << NewSubmission(1, "PENDING") >>
  /\ tasks = <<>>
  /\ order = <<>>
  /\ reqs = <<>>
  /\ readResp = <<>>
  /\ sc = <<>>

\* await update(status RUNNING): returns or throws
PsRunning ==
  /\ bg.pc = "start"
  /\ \/ db' = Update(db, bg.id, [status |-> "RUNNING"]) /\ bg' = [bg EXCEPT !.pc = "find"]
     \/ bg' = [bg EXCEPT !.pc = "catch"] /\ UNCHANGED db
  /\ UNCHANGED <<tasks, order, reqs, readResp, sc>>

\* await findUnique(submission with problem and test cases): returns or throws
PsFind ==
  /\ bg.pc = "find"
  /\ \/ bg' = [bg EXCEPT !.pc = "loop"]
     \/ bg' = [bg EXCEPT !.pc = "catch"]
  /\ UNCHANGED <<db, tasks, order, reqs, readResp, sc>>

\* executeCode has returned result for the current test case: totalScore, results.push
PsPush(result) ==
  LET testCase == RunTests[bg.turn + 1]
  IN bg' = [bg EXCEPT !.call = "idle",
                      !.turn = @ + 1,
                      !.totalScore = IF result.passed THEN @ + testCase.points ELSE @,
                      !.results = Append(@, [ testCaseId    |-> bg.turn + 1,
                                              passed        |-> result.passed,
                                              executionTime |-> result.executionTime,
                                              memoryUsed    |-> result.memoryUsed,
                                              status        |-> result.status ])]

\* executeCode is called for the next test case; axios.post returns the token
PsSubmitOk ==
  /\ bg.pc = "loop" /\ bg.call = "idle" /\ bg.turn < RunN
  /\ bg' = [bg EXCEPT !.call = "sleep"]
  /\ UNCHANGED <<db, tasks, order, reqs, readResp, sc>>

\* executeCode is called for the next test case; axios.post throws
PsSubmitFail ==
  /\ bg.pc = "loop" /\ bg.call = "idle" /\ bg.turn < RunN
  /\ \E msg \in {MsgNetwork, MsgSubmitFailed} : PsPush(FirstErrorOutcome(msg))
  /\ UNCHANGED <<db, tasks, order, reqs, readResp, sc>>

\* do { await new Promise(resolve => setTimeout(resolve, 1000));
PsSleep ==
  /\ bg.pc = "loop" /\ bg.call = "sleep"
  /\ bg' = [bg EXCEPT !.call = "get"]
  /\ UNCHANGED <<db, tasks, order, reqs, readResp, sc>>

\* ... result = (await axios.get(...)).data } while (result.status.id <= 2)
PsGet ==
  /\ bg.pc = "loop" /\ bg.call = "get"
  /\ \E r \in PollResponses(RunTests[bg.turn + 1]) :
       IF r.kind # "json" THEN PsPush(FirstErrorOutcome(IF r.kind = "neterr" THEN MsgNetwork
                                                       ELSE MsgPollFailed))
       ELSE IF r.statusId = 0 THEN PsPush(FirstErrorOutcome(MsgNoStatus))
       ELSE IF r.statusId <= 2 THEN bg' = [bg EXCEPT !.call = "sleep"]
       ELSE PsPush(FirstTerminalOutcome(r))
  /\ UNCHANGED <<db, tasks, order, reqs, readResp, sc>>

\* the loop is over: await update(COMPLETED, score, results) returns or throws
PsFinal ==
  /\ bg.pc = "loop" /\ bg.call = "idle" /\ bg.turn = RunN
  /\ \/ /\ db' = Update(db, bg.id, [status  |-> "COMPLETED",
                                      score   |-> << bg.totalScore >>,
                                      results |-> bg.results])
        /\ bg' = [bg EXCEPT !.pc = "done"]
     \/ bg' = [bg EXCEPT !.pc = "catch"] /\ UNCHANGED db
  /\ UNCHANGED <<tasks, order, reqs, readResp, sc>>

\* the catch block: await update(status ERROR) returns, or throws and the promise
\* of the run rejects
PsCatch ==
  /\ bg.pc = "catch"
  /\ \/ db' = Update(db, bg.id, [status |-> "ERROR"]) /\ bg' = [bg EXCEPT !.pc = "done"]
     \/ bg' = [bg EXCEPT !.pc = "rejected"] /\ UNCHANGED db
  /\ UNCHANGED <<tasks, order, reqs, readResp, sc>>

NextProcess ==
  \/ PsRunning
  \/ PsFind
  \/ PsSubmitOk
  \/ PsSubmitFail
  \/ PsSleep
  \/ PsGet
  \/ PsFinal
  \/ PsCatch

\* every ready continuation runs and every request and write returns
SpecProcessFair == InitProcess /\ [][NextProcess]_vars /\ WF_vars(NextProcess)

\* C30: when every request and every write returns, a submission handled by
\* processSubmission eventually reaches COMPLETED or ERROR (or the ERROR write of the
\* catch block has thrown), also when the engine never reports a status id above 2
C30_FirstRevisionTerminates ==
  <>(bg.pc = "rejected" \/ db[bg.id].status \in {"COMPLETED", "ERROR"})

-----------------------------------------------------------------------------
(* The controller-based submissions router (the last router of                 *)
(* routes/submissions.js), mounted at /api/submissions.  A path is the         *)
(* sequence of its segments below the mount point.  bg is one request on its  *)
(* way through the layers of the router, tried in the order of registration.  *)

\* router.post('/', ...) ... router.get('/test-judge0', ...), in that order
RouteTable ==
  << [method |-> "POST", pattern |-> <<>>,                         handler |-> "submitCodeAsync"],
     [method |-> "POST", pattern |-> <<"sync">>,                   handler |-> "submitCodeSync"],
     [method |-> "GET",  pattern |-> <<":id">>,                    handler |-> "getSubmissionById"],
     [method |-> "GET",  pattern |-> <<"problem", ":problemId">>,  handler |-> "getSubmissionsByProblem"],
     [method |-> "GET",  pattern |-> <<"test-judge0">>,            handler |-> "testJudge0"] >>

\* a segment of a pattern that is a named parameter matches every segment
IsParam(segment) == segment \in {":id", ":problemId"}

\* the path matches the pattern of a layer segment by segment
Matches(pattern, path) ==
  /\ Len(pattern) = Len(path)
  /\ \A k \in 1..Len(pattern) : IsParam(pattern[k]) \/ pattern[k] = path[k]

Segments == {"sync", "problem", "test-judge0", "clx1"}

RECURSIVE PathsOfLength(_)
PathsOfLength(n) ==
  IF n = 0 THEN {<<>>}
  ELSE { Append(p, seg) : p \in PathsOfLength(n - 1), seg \in Segments }

InitRoutes ==
  /\ \E method \in {"GET", "POST"}, n \in 0..MaxSegments : \E path \in PathsOfLength(n) :
       bg = [method |-> method, path |-> path, layer |-> 1, handler |-> "none"]
  /\ db = <<>>
  /\ readResp = <<>>
  /\ reqs = <<>>
  /\ tasks = <<>>
  /\ order = <<>>
  /\ sc = <<>>

\* the router tries its next layer: the handler of a layer that matches is called
\* and answers (none of the handlers passes the request on), otherwise the next
\* layer is tried
TryLayer(table) ==
  /\ bg.handler = "none" /\ bg.layer <= Len(table)
  /\ LET route == table[bg.layer]
     IN IF route.method = bg.method /\ Matches(route.pattern, bg.path)
        THEN bg' = [bg EXCEPT !.handler = route.handler]
        ELSE bg' = [bg EXCEPT !.layer = @ + 1]
  /\ UNCHANGED <<db, readResp, reqs, tasks, order, sc>>

\* no layer of the router matched: the 404 handler of the application answers
FallThrough(table) ==
  /\ bg.handler = "none" /\ bg.layer > Len(table)
  /\ bg' = [bg EXCEPT !.handler = "notFound"]
  /\ UNCHANGED <<db, readResp, reqs, tasks, order, sc>>

NextRoutes ==
  \/ TryLayer(RouteTable)
  \/ FallThrough(RouteTable)

SpecRoutes == InitRoutes /\ [][NextRoutes]_vars

\* C34: a GET request for /test-judge0 is dispatched to testJudge0
C34_TestRouteReachesTestJudge0 ==
  (bg.method = "GET" /\ bg.path = <<"test-judge0">> /\ bg.handler # "none")
    => bg.handler = "testJudge0"

\* the texts of a result or of a test case
TextsOf(rec) ==
  { rec[f] : f \in DOMAIN rec \cap
                   {"input", "output", "expectedOutput", "actualOutput", "status", "error"} }

TextsIn(list) == UNION { TextsOf(list[i]) : i \in 1..Len(list) }

\* C1: an exception that escapes after the submission was created leaves the
\* persisted status ERROR with a diagnostic result, for both submission paths
C1_EscapedExceptionMarksError ==
  \A r \in 1..Len(reqs) :
    (reqs[r].pc = "done" /\ reqs[r].threw) =>
      /\ db[reqs[r].sid].status = "ERROR"
      /\ db[reqs[r].sid].results # NoResults

\* every text of the body of a successful getSubmissionById response
ReadTexts(body) ==
  TextsIn(body.testCaseResults) \cup TextsIn(body.results) \cup TextsIn(body.problem.testCases)

\* redacted holds, position by position, the results with the fields passed, status,
\* executionTime and memoryUsed as they were, and the results of the test cases that
\* are not hidden as they were in every field
Framed(redacted, results) ==
  /\ Len(redacted) = Len(results)
  /\ \A i \in 1..Len(results) :
       /\ \A f \in {"passed", "status", "executionTime", "memoryUsed"} \cap DOMAIN results[i] :
            f \in DOMAIN redacted[i] /\ redacted[i][f] = results[i][f]
       /\ ~ ("isHidden" \in DOMAIN results[i] /\ results[i].isHidden)
            => redacted[i] = results[i]

\* C25: the redaction of submitCodeSync and of getSubmissionById leaves the results of
\* the test cases that are not hidden as they are, and keeps passed, status,
\* executionTime, memoryUsed and the position of every result
C25_RedactionFrame ==
  [][/\ \A r \in 1..Len(reqs') :
          (reqs'[r].kind = "sync" /\ reqs'[r].response # <<>> /\ reqs'[r].response[1].code = 200)
            => Framed(reqs'[r].response[1].testCaseResults, reqs'[r].results)
     /\ (readResp' # readResp /\ readResp'[1].code = 200)
            => Framed(readResp'[1].testCaseResults, db[readResp'[1].id].results)]_vars

\* C25 witness: a response of submitCodeSync and a read of its submission, each with
\* a redacted second result and an untouched first one
C25_Witness ==
  /\ readResp # <<>> /\ readResp[1].code = 200 /\ readResp[1].status = "COMPLETED"
  /\ readResp[1].testCaseResults[2].input = Hidden
  /\ readResp[1].testCaseResults[1] = db[readResp[1].id].results[1]
  /\ \E r \in 1..Len(reqs) :
       /\ SyncAnswered(r)
       /\ reqs[r].response[1].testCaseResults[2].input = Hidden
       /\ reqs[r].response[1].testCaseResults[1] = reqs[r].results[1]
       /\ reqs[r].results[1].input # Hidden

\* C2: the response of getSubmissionById holds in no field the input, the expected
\* output or the actual output of a hidden test case
C2_ReadHidesHiddenTests ==
  (readResp # <<>> /\ readResp[1].code = 200) =>
    LET body == readResp[1]
        tcs  == ProblemTable[body.problemId].testCases
    IN \A i \in 1..Len(tcs) :
         tcs[i].isHidden =>
           /\ tcs[i].input \notin ReadTexts(body)
           /\ tcs[i].output \notin ReadTexts(body)
           /\ (body.status = "COMPLETED" /\ db[body.id].results[i].actualOutput # <<>>)
                => db[body.id].results[i].actualOutput \notin ReadTexts(body)

\* C3: in the response of submitCodeSync a hidden result has "[Hidden]" as input and
\* expected output and "[Hidden - Passed]" or "[Hidden - Failed]" as actual output,
\* and the original strings appear nowhere in the response
C3_SyncResponseHidesHiddenTests ==
  \A r \in 1..Len(reqs) :
    (reqs[r].kind = "sync" /\ reqs[r].response # <<>> /\ reqs[r].response[1].code = 200) =>
      LET body == reqs[r].response[1]
          tcs  == TestsOf(r)
      IN \A i \in 1..Len(tcs) :
           tcs[i].isHidden =>
             /\ body.testCaseResults[i].input = Hidden
             /\ body.testCaseResults[i].expectedOutput = Hidden
             /\ body.testCaseResults[i].actualOutput \in {HiddenPassed, HiddenFailed}
             /\ body.testCaseResults[i].actualOutput = HiddenPassed
                  <=> reqs[r].results[i].passed
             /\ tcs[i].input \notin TextsIn(body.testCaseResults)
             /\ tcs[i].output \notin TextsIn(body.testCaseResults)
             /\ reqs[r].results[i].actualOutput # <<>>
                  => reqs[r].results[i].actualOutput \notin TextsIn(body.testCaseResults)

-----------------------------------------------------------------------------
(* The score formula on its own: a problem and the pass/fail outcome of its   *)
(* test cases are drawn, then the formula is applied.                         *)

ScoreInputs ==
  { [ testCases |-> [i \in 1..n |-> [points |-> base + (IF i <= k THEN 1 ELSE 0)]],
      results   |-> [i \in 1..n |-> [passed |-> (a <= i /\ i <= b)]] ]
    : n \in 1..MaxScoreTests, base \in 0..MaxBasePoints,
      k \in 0..MaxScoreTests, a \in 1..MaxScoreTests, b \in 0..MaxScoreTests }

InitScore ==
  /\ \E in \in ScoreInputs :
       sc = [stage |-> "input", testCases |-> in.testCases, results |-> in.results]
  /\ db = <<>>
  /\ reqs = <<>>
  /\ readResp = <<>>
  /\ bg = <<>>
  /\ tasks = <<>>
  /\ order = <<>>

\* a total that counts the passed test cases instead of adding their points
TotalScoreCountsPassed(results, tcs) == CountPassed(results)

\* the first revision's processSubmission: totalScore += testCase.points for every
\* test case whose result passed
RECURSIVE TotalScore(_, _)
TotalScore(results, tcs) ==
  IF tcs = <<>> THEN 0
  ELSE (IF Head(results).passed THEN Head(tcs).points ELSE 0) + TotalScore(Tail(results), Tail(tcs))

ComputeScore ==
  /\ sc.stage = "input"
  /\ sc' = [ stage |-> "scored", testCases |-> sc.testCases, results |-> sc.results,
             agg |-> Aggregate(sc.results, sc.testCases),
             totalScore |-> TotalScore(sc.results, sc.testCases) ]
  /\ UNCHANGED <<db, reqs, readResp, bg, tasks, order>>

NextScore == ComputeScore

SpecScore == InitScore /\ [][NextScore]_vars

\* round(x / y) for naturals x and y > 0, a tie going up
RoundRatio(x, y) == (2 * x + y) \div (2 * y)

Scored == sc.stage = "scored"

\* C6: the score equals round(totalPoints * passedCount / testCaseCount)
C6_ScoreIsRoundedRatio ==
  Scored => sc.agg.score = RoundRatio(sc.agg.totalPoints * sc.agg.passedTests, Len(sc.testCases))

\* C7 as stated: 0 <= score <= totalPoints, and score = totalPoints exactly when
\* every test case passed
C7_FullScoreIffAllPassed ==
  Scored => /\ 0 <= sc.agg.score /\ sc.agg.score <= sc.agg.totalPoints
            /\ (sc.agg.score = sc.agg.totalPoints) <=> AllPassed(sc.results)

\* C7 amended: 0 <= score <= totalPoints, and score = totalPoints whenever every
\* test case passed
C7_ScoreBoundedFullWhenAllPassed ==
  Scored => /\ 0 <= sc.agg.score /\ sc.agg.score <= sc.agg.totalPoints
            /\ AllPassed(sc.results) => sc.agg.score = sc.agg.totalPoints

\* C7 witness: some but not all test cases passed and the score lies strictly between
C7_Witness ==
  /\ Scored
  /\ ~AllPassed(sc.results) /\ sc.agg.passedTests > 1
  /\ 0 < sc.agg.score /\ sc.agg.score < sc.agg.totalPoints

-----------------------------------------------------------------------------
(* The time limit executeCode sends to the engine: a problem's time limit in  *)
(* milliseconds is drawn, then submissionData.cpu_time_limit is built.        *)

Digit == <<"0", "1", "2", "3", "4", "5", "6", "7", "8", "9">>

\* the decimal digits of a natural number
RECURSIVE DecimalText(_)
DecimalText(x) ==
  IF x < 10 THEN << Digit[x + 1] >> ELSE Append(DecimalText(x \div 10), Digit[(x % 10) + 1])

\* x.toFixed(1) for a double x >= 0: with n the integer for which n / 10 - x is
\* closest to zero (the larger one of two), the digits of n with a point before
\* the last one.  10 * x is taken exactly.
ToFixed1(x) ==
  LET n == MathRound([n |-> MulSmall(x.n, 10), k |-> x.k])
  IN DecimalText(n \div 10) \o <<".">> \o << Digit[(n % 10) + 1] >>

\* cpu_time_limit: (timeLimit / 1000).toFixed(1)
CpuTimeLimit(timeLimit) == ToFixed1(FDiv(timeLimit, 1000))

DigitValue(c) == (CHOOSE d \in 1..10 : Digit[d] = c) - 1

RECURSIVE NaturalOf(_)
NaturalOf(text) ==
  IF text = <<>> THEN 0
  ELSE 10 * NaturalOf(SubSeq(text, 1, Len(text) - 1)) + DigitValue(text[Len(text)])

RECURSIVE Pow10(_)
Pow10(e) == IF e = 0 THEN 1 ELSE 10 * Pow10(e - 1)

\* a decimal text of seconds with at most three decimals, read as a number and
\* multiplied by 1000
MillisecondsOf(text) ==
  LET point == CHOOSE j \in 1..Len(text) : text[j] = "."
      frac  == SubSeq(text, point + 1, Len(text))
  IN 1000 * NaturalOf(SubSeq(text, 1, point - 1)) + NaturalOf(frac) * Pow10(3 - Len(frac))

InitLimits ==
  /\ \E timeLimit \in 1..MaxTimeLimit : sc = [stage |-> "input", timeLimit |-> timeLimit]
  /\ db = <<>>
  /\ reqs = <<>>
  /\ readResp = <<>>
  /\ bg = <<>>
  /\ tasks = <<>>
  /\ order = <<>>

\* const submissionData = { ..., cpu_time_limit: (timeLimit / 1000).toFixed(1), ... }
BuildSubmissionData ==
  /\ sc.stage = "input"
  /\ sc' = [ stage |-> "built", timeLimit |-> sc.timeLimit,
             cpu_time_limit |-> CpuTimeLimit(sc.timeLimit) ]
  /\ UNCHANGED <<db, reqs, readResp, bg, tasks, order>>

NextLimits == BuildSubmissionData

SpecLimits == InitLimits /\ [][NextLimits]_vars

\* C35: the cpu_time_limit sent, read as seconds and multiplied by 1000, equals the
\* time limit of the problem, and is not 0
C35_CpuTimeLimitRoundTrips ==
  sc.stage = "built" =>
    /\ MillisecondsOf(sc.cpu_time_limit) = sc.timeLimit
    /\ MillisecondsOf(sc.cpu_time_limit) # 0

-----------------------------------------------------------------------------
(* The two score computations compared, on the inputs of the score formula. *)

EqualPoints(tcs) == \A i, j \in 1..Len(tcs) : tcs[i].points = tcs[j].points

\* C38: when all test cases of a problem carry the same point value, the sum of the
\* points of the passed test cases equals the score of the controller's formula,
\* for every pass/fail outcome
C38_SumEqualsFormulaOnEqualPoints ==
  (Scored /\ EqualPoints(sc.testCases)) => sc.totalScore = sc.agg.score

\* C38 witness: three or seven test cases of equal, non-zero points, some but not
\* all passed (the quotient passed / count is not a binary fraction), and the two
\* scores agree
C38_Witness ==
  /\ Scored /\ EqualPoints(sc.testCases)
  /\ Len(sc.testCases) \in {3, 7} /\ sc.testCases[1].points > 1
  /\ 0 < sc.agg.passedTests /\ sc.agg.passedTests < Len(sc.testCases)
  /\ sc.totalScore = sc.agg.score /\ sc.totalScore > 0

====
